---- MODULE Spec2Model ----
(***************************************************************************)
(* DNSpector: the DNS record aggregation of the popup (loadDnsRecords,     *)
(* displayAggregatedRecords, the per-provider fetch functions) and the     *)
(* provider client DnsService.fetchRecords with the background script's    *)
(* getDnsRecords handler.                                                  *)
(*                                                                         *)
(* Strings the code inspects character by character (the data of a DNS     *)
(* answer) are sequences of one-character strings: "ns1." is               *)
(* <<"n", "s", "1", ".">>.  Strings the code only compares or passes on    *)
(* are TLA+ strings.                                                       *)
(***************************************************************************)
EXTENDS Integers, Sequences, FiniteSets, TLC

VARIABLES
    net,            \* aggregation: [Calls -> network outcome] of each (provider, type) request
    pc,             \* aggregation: "idle" | "waiting" | "done"
    settled,        \* aggregation: the (provider, type) promises that have settled
    allRecords,     \* aggregation: popup.js allRecords, [type -> sequence of tagged records]
    emitCount,      \* aggregation: number of calls of displayAggregatedRecords
    output,         \* aggregation: [type -> sequence of deduplicated records] as rendered
    nsLookups,      \* aggregation: nameservers handed to fetchNameserverIP
    loaderHidden,   \* aggregation: dnsLoader carries the class "hidden"
    fallbackFired,  \* aggregation: the 10 s setTimeout callback has run
    clFn,           \* client: the provider client under call
    clProvider,     \* client: the provider argument of DnsService.fetchRecords
    clType,         \* client: the recordType argument
    clPc,           \* client: "ready" | "sent" | "cached" | "fetching" | "replied"
    clNet,          \* client: the network outcome of the request in progress
    clReply,        \* client: the response the background script sent
    clLog,          \* client: the calls made so far, each with what its promise settled to
    sessionCache,   \* background.js sessionCache, a map from cache key to entry
    now,            \* Date.now(), in minutes
    pHost,          \* popup: url.hostname of the active tab
    pSecurityUtils, \* popup: window.SecurityUtils is loaded
    pSessionDns,    \* popup: the record types window.SessionData holds for the domain
    pSessionCloud,  \* popup: window.SessionData holds the cloud provider of the domain
    pBgFresh,       \* popup: the background's sessionCache holds fresh entries for the domain
    pPc,            \* popup: "closed" | "opened" | "loading" | "shown"
    pShown,         \* popup: the text of #current-url
    pSent,          \* popup: the messages sent to the background script, in order
    pHandled,       \* popup: how many of them the background script has handled
    pRequests,      \* popup: the requests the background script sent to the resolver
    cMode,          \* caches: "SessionData" or the request sent to the listener, else "none"
    memoryStore,    \* SessionData: memoryStore, a map from key to {value, expiryTime}
    timers,         \* SessionData: the pending setTimeout callbacks of set
    heap,           \* SessionData: the objects of the page, by reference
    callerRefs,     \* SessionData: the references the caller of SessionData holds
    sdOps,          \* SessionData: number of steps the page has made
    sdLastOp,       \* SessionData: the call made last
    sdResult,       \* SessionData: what the last get returned
    sdLive,         \* SessionData: per key, its last set if no remove or clear followed
    sdCleared,      \* SessionData: the keys the last clear dropped, not set since
    bgInFlight,     \* background: the fetches the listener waits for
    bgReply,        \* background: the response sent last
    bgCleared,      \* background: the keys the last reset dropped, not set since
    eDnsData,       \* evaluator: the dnsData argument
    eSslData,       \* evaluator: the sslData / certData argument
    eDomain,        \* evaluator: the domain argument
    eUrl,           \* evaluator: the url argument
    eSecurityUtils, \* evaluator: window.SecurityUtils is loaded
    eCall,          \* evaluator: the function called last, "none" before a call
    eOutcome,       \* evaluator: what that call returned, or that it threw
    eDmarcTxt,      \* evaluator: the TXT response the resolver has for _dmarc.<domain>
    sPc,            \* security check: the position of runSecurityCheck
    sSession,       \* security check: the record types, and "SSL", SessionData holds
    sDnsData,       \* security check: the types dnsData has a property for
    sSslData,       \* security check: sslData has properties
    sNext,          \* security check: the index of the type the loop asks for
    sStored         \* security check: the types behind the stored security results

aggVars == <<net, pc, settled, allRecords, emitCount, output, nsLookups,
             loaderHidden, fallbackFired>>

clientVars == <<clFn, clProvider, clType, clPc, clNet, clReply, clLog, sessionCache, now>>

popupVars == <<pHost, pSecurityUtils, pSessionDns, pSessionCloud, pBgFresh, pPc, pShown,
               pSent, pHandled, pRequests>>

clientCallVars == <<clFn, clProvider, clType, clPc, clNet, clReply, clLog>>

sessionVars == <<memoryStore, timers, heap, callerRefs, sdOps, sdLastOp, sdResult, sdLive,
                 sdCleared>>

bgVars == <<bgInFlight, bgReply, bgCleared>>

evalVars == <<eDnsData, eSslData, eDomain, eUrl, eSecurityUtils, eCall, eOutcome, eDmarcTxt>>

secVars == <<sPc, sSession, sDnsData, sSslData, sNext, sStored>>

\* The variables of the sections further down
laterVars == <<popupVars, cMode, sessionVars, bgVars, evalVars, secVars>>

notPopupVars == <<aggVars, clientVars, cMode, sessionVars, bgVars, evalVars, secVars>>

notSessionVars == <<aggVars, clientVars, popupVars, bgVars, evalVars, secVars>>

notBackgroundVars == <<aggVars, clientCallVars, popupVars, sessionVars, evalVars, secVars>>

notEvalVars == <<aggVars, clientVars, popupVars, cMode, sessionVars, bgVars, secVars>>

notSecVars == <<aggVars, clientVars, popupVars, cMode, sessionVars, bgVars, evalVars>>

vars == <<aggVars, clientVars, laterVars>>

(***************************************************************************)
(* Bounds                                                                  *)
(***************************************************************************)
\* How many of the record types of loadDnsRecords one run queries.
NumTypes == 2
\* How many (provider, type) requests may stay pending for ever.
MaxHung == 1
\* How many calls of a provider client one run makes.
MaxRequests == 2
\* How far the clock runs, in minutes.
MaxNow == 3
\* Longest hostname of the active tab
MaxHost == 4
\* Latest time of the SessionData runs
MaxTime == 2
\* Longest expiry given to SessionData.set
MaxTtl == 2
\* Number of steps of the page that uses SessionData in one run
MaxOps == 4
\* Number of objects of the page
MaxObjects == 3
\* Latest time of the background runs, in minutes
MaxMinute == 11
\* Number of fetches the listener waits for at once
MaxInFlight == 1

(***************************************************************************)
(* Strings as character sequences                                          *)
(***************************************************************************)
\* String.prototype.endsWith('.')
endsWithDot(s) == Len(s) > 0 /\ s[Len(s)] = "."

\* String.prototype.slice(0, -1)
sliceLast(s) == IF Len(s) = 0 THEN s ELSE SubSeq(s, 1, Len(s) - 1)

\* Array.prototype.includes on a sequence
includes(seq, x) == \E i \in 1..Len(seq) : seq[i] = x

(***************************************************************************)
(* The configuration of loadDnsRecords                                     *)
(***************************************************************************)
\* const recordTypes = ['NS', 'A', 'AAAA', 'CNAME', 'MX', 'TXT', 'CAA', 'SOA', 'PTR']
allRecordTypes == <<"NS", "A", "AAAA", "CNAME", "MX", "TXT", "CAA", "SOA", "PTR">>

\* The first NumTypes of them, in the order of the code.
recordTypes == SubSeq(allRecordTypes, 1, NumTypes)

TypeSet == {recordTypes[i] : i \in 1..Len(recordTypes)}

\* const dnsProviders: the provider list, in order.  popup.js keeps Google DNS
\* and names the others as temporarily removed; the fan-out and the merge are
\* written for any list, and the list here has the Cloudflare provider (with
\* the fetch function the repository has for it) after the Google one.
dnsProviders == <<[name |-> "Google DNS", fetchFunction |-> "fetchFromGoogleDNS"],
                  [name |-> "Cloudflare", fetchFunction |-> "fetchFromCloudflare"]>>

ProviderIdx == 1..Len(dnsProviders)

\* One request per (provider, type) pair.
Calls == ProviderIdx \X TypeSet

(***************************************************************************)
(* What the network can answer to one DNS-over-HTTPS request               *)
(***************************************************************************)
\* fetch() rejected (network unreachable)
NetErr == [kind |-> "neterr", hasAnswer |-> FALSE, Answer |-> <<>>]
\* response.ok is false
NetBadStatus == [kind |-> "status", hasAnswer |-> FALSE, Answer |-> <<>>]
\* response.json() rejected
NetBadJson == [kind |-> "badjson", hasAnswer |-> FALSE, Answer |-> <<>>]
\* the request never completes
NetHang == [kind |-> "hang", hasAnswer |-> FALSE, Answer |-> <<>>]
\* a JSON body without an Answer member
NetNoAnswer == [kind |-> "ok", hasAnswer |-> FALSE, Answer |-> <<>>]
\* a JSON body with the Answer array `answers`
NetOk(answers) == [kind |-> "ok", hasAnswer |-> TRUE, Answer |-> answers]

DataA == <<"a">>
DataADot == <<"a", ".">>
DataB == <<"b">>

\* One entry of the resolver's Answer array: {name, type, data, TTL}.
Ans(d, ttl) == [name |-> "example.com", data |-> d, TTL |-> ttl]

AnswersOne == <<Ans(DataA, 1)>>
AnswersMany == <<Ans(DataADot, 2), Ans(DataA, 3), Ans(DataB, 1)>>

\* The outcomes one aggregation run draws from.
AggNetOutcomes == {NetErr, NetNoAnswer, NetOk(AnswersOne), NetOk(AnswersMany)}

(***************************************************************************)
(* The fetch functions of the providers                                    *)
(***************************************************************************)
Resolved(v) == [state |-> "resolved", value |-> v]
Rejected == [state |-> "rejected", value |-> <<>>]

\* data.Answer.map(answer => ({name, type: recordType, data, ttl: answer.TTL}))
mapAnswers(answers, recordType) ==
    [i \in 1..Len(answers) |->
        [name |-> answers[i].name, type |-> recordType,
         data |-> answers[i].data, ttl |-> answers[i].TTL]]

\* popup.js fetchFromGoogleDNS: every failure resolves to the empty list.
fetchFromGoogleDNS(n, recordType) ==
    IF n.kind # "ok" THEN Resolved(<<>>)
    ELSE IF ~n.hasAnswer \/ Len(n.Answer) = 0 THEN Resolved(<<>>)
    ELSE Resolved(mapAnswers(n.Answer, recordType))

\* fetchFromCloudflare: a failure rejects.
fetchFromCloudflare(n, recordType) ==
    IF n.kind # "ok" THEN Rejected
    ELSE IF ~n.hasAnswer \/ Len(n.Answer) = 0 THEN Resolved(<<>>)
    ELSE Resolved(mapAnswers(n.Answer, recordType))

\* provider.fetchFunction(domain, type)
fetchFunction(provider, n, recordType) ==
    IF provider.fetchFunction = "fetchFromGoogleDNS"
    THEN fetchFromGoogleDNS(n, recordType)
    ELSE fetchFromCloudflare(n, recordType)

(***************************************************************************)
(* loadDnsRecords: the callbacks of one (provider, type) request           *)
(***************************************************************************)
\* records.map(record => ({...record, provider: provider.name}))
recordsWithProvider(records, providerName) ==
    [i \in 1..Len(records) |->
        [name |-> records[i].name, type |-> records[i].type,
         data |-> records[i].data, ttl |-> records[i].ttl,
         provider |-> providerName]]

\* Mutant: the new records replace the collected ones.
appendRecords_Overwrite(collected, tagged) == tagged

\* allRecords[type] = [...allRecords[type], ...recordsWithProvider]
appendRecords(collected, tagged) == collected \o tagged

\* .then(records => ...).catch(error => ...): what the request leaves in allRecords
storeRecords(all, recordType, providerName, result) ==
    IF result.state = "resolved" /\ Len(result.value) > 0
    THEN [all EXCEPT ![recordType] =
              appendRecords(@, recordsWithProvider(result.value, providerName))]
    ELSE all

\* Mutant: the result is emitted as soon as one request has settled.
allSettled_Any(done) == done # {}

\* Promise.allSettled(fetchPromises)
allSettled(done) == done = Calls

(***************************************************************************)
(* displayAggregatedRecords: the deduplication                             *)
(***************************************************************************)
\* Mutant: the data is the key as it came.
cleanData_Raw(data) == data

\* const cleanData = record.data.endsWith('.') ? record.data.slice(0, -1) : record.data
cleanData(data) == IF endsWithDot(data) THEN sliceLast(data) ELSE data

\* Mutant: the provider is part of the key.
recordKey_WithProvider(recordType, record) == <<cleanData(record.data), record.provider>>

\* The key of a record in the uniqueRecords map; every branch gives cleanData.
recordKey(recordType, record) ==
    CASE recordType \in {"NS", "SOA", "TXT"} -> cleanData(record.data)
      [] recordType = "MX" -> cleanData(record.data)
      [] recordType \in {"A", "AAAA"} -> cleanData(record.data)
      [] recordType = "CNAME" -> cleanData(record.data)
      [] OTHER -> cleanData(record.data)

\* Map.prototype.has / get: the position of the key in insertion order, 0 if absent
keyIndex(unique, key) ==
    IF \E i \in 1..Len(unique) : unique[i].key = key
    THEN CHOOSE i \in 1..Len(unique) : unique[i].key = key
    ELSE 0

\* uniqueRecords.set(key, {...record, data: cleanData, sources: [record.provider]})
newEntry(key, record) ==
    [key |-> key,
     value |-> [name |-> record.name, type |-> record.type,
                data |-> cleanData(record.data), ttl |-> record.ttl,
                provider |-> record.provider, sources |-> <<record.provider>>]]

\* Mutant: every occurrence pushes its provider.
mergeRecord_NoIncludes(unique, recordType, record) ==
    LET key == recordKey(recordType, record)
        i == keyIndex(unique, key)
    IN IF i # 0
       THEN [unique EXCEPT ![i].value.sources = Append(@, record.provider)]
       ELSE Append(unique, newEntry(key, record))

\* Mutant: a later occurrence overwrites the ttl.
mergeRecord_LastWins(unique, recordType, record) ==
    LET key == recordKey(recordType, record)
        i == keyIndex(unique, key)
    IN IF i # 0
       THEN [unique EXCEPT ![i].value.ttl = record.ttl,
                           ![i].value.sources =
                               IF includes(@, record.provider) THEN @
                               ELSE Append(@, record.provider)]
       ELSE Append(unique, newEntry(key, record))

\* One iteration of records.forEach(record => ...) over the uniqueRecords map
mergeRecord(unique, recordType, record) ==
    LET key == recordKey(recordType, record)
        i == keyIndex(unique, key)
    IN IF i # 0
       THEN IF ~includes(unique[i].value.sources, record.provider)
            THEN [unique EXCEPT ![i].value.sources = Append(@, record.provider)]
            ELSE unique
       ELSE Append(unique, newEntry(key, record))

\* The uniqueRecords map after the first pass over `records`
RECURSIVE uniqueRecords(_, _)
uniqueRecords(recordType, records) ==
    IF Len(records) = 0 THEN <<>>
    ELSE mergeRecord(uniqueRecords(recordType, SubSeq(records, 1, Len(records) - 1)),
                     recordType, records[Len(records)])

\* uniqueRecords.forEach(record => ...): the records rendered for one type
renderedRecords(recordType, records) ==
    LET unique == uniqueRecords(recordType, records)
    IN IF Len(records) = 0 THEN <<>>
       ELSE [i \in 1..Len(unique) |-> unique[i].value]

\* displayAggregatedRecords(domain, allRecords)
displayAggregatedRecords(all) ==
    [t \in DOMAIN all |-> renderedRecords(t, all[t])]

\* fetchNameserverIP(record.data, recordItem) for every rendered NS record
nameserverLookups(out) ==
    IF "NS" \in DOMAIN out
    THEN {cleanData(out["NS"][i].data) : i \in 1..Len(out["NS"])}
    ELSE {}

(***************************************************************************)
(* The aggregation run                                                     *)
(***************************************************************************)
HungCalls(n) == {c \in Calls : n[c].kind = "hang"}

\* The popup before loadDnsRecords has run.
AggIdle ==
    /\ pc = "idle"
    /\ settled = {}
    /\ allRecords = <<>>
    /\ emitCount = 0
    /\ output = <<>>
    /\ nsLookups = {}
    /\ loaderHidden = FALSE
    /\ fallbackFired = FALSE

AggInit ==
    /\ net \in [Calls -> AggNetOutcomes \cup {NetHang}]
    /\ Cardinality(HungCalls(net)) <= MaxHung
    /\ AggIdle

\* loadDnsRecords(domain): the synchronous part, which starts every request
\* and arms the fallback timer.
LoadDnsRecords ==
    /\ pc = "idle"
    /\ pc' = "waiting"
    /\ allRecords' = [t \in TypeSet |-> <<>>]
    /\ UNCHANGED <<net, settled, emitCount, output, nsLookups, loaderHidden, fallbackFired>>
    /\ UNCHANGED <<clientVars, laterVars>>

\* One request completes and its .then/.catch callback runs.
Settle(c) ==
    /\ pc \in {"waiting", "done"}
    /\ c \notin settled
    /\ net[c].kind # "hang"
    /\ allRecords' = storeRecords(allRecords, c[2], dnsProviders[c[1]].name,
                                  fetchFunction(dnsProviders[c[1]], net[c], c[2]))
    /\ settled' = settled \cup {c}
    /\ UNCHANGED <<net, pc, emitCount, output, nsLookups, loaderHidden, fallbackFired>>
    /\ UNCHANGED <<clientVars, laterVars>>

\* Promise.allSettled(fetchPromises).then(results => ...)
Emit ==
    /\ pc = "waiting"
    /\ allSettled(settled)
    /\ output' = displayAggregatedRecords(allRecords)
    /\ nsLookups' = nameserverLookups(displayAggregatedRecords(allRecords))
    /\ emitCount' = emitCount + 1
    /\ loaderHidden' = TRUE
    /\ pc' = "done"
    /\ UNCHANGED <<net, settled, allRecords, fallbackFired>>
    /\ UNCHANGED <<clientVars, laterVars>>

\* setTimeout(() => { dnsLoader.classList.add('hidden') }, 10000)
FallbackTimer ==
    /\ pc \in {"waiting", "done"}
    /\ ~fallbackFired
    /\ fallbackFired' = TRUE
    /\ loaderHidden' = TRUE
    /\ UNCHANGED <<net, pc, settled, allRecords, emitCount, output, nsLookups>>
    /\ UNCHANGED <<clientVars, laterVars>>

(***************************************************************************)
(* DnsService.parseResponse                                                *)
(***************************************************************************)
DataMx == <<"1", "0", " ", "m">>
DataTxt == <<"\"", "v", "\"">>
DataCaa == <<"0", " ", "i", " ", "\"", "c", "\"">>

Digits == <<"0", "1", "2", "3", "4", "5", "6", "7", "8", "9">>

isDigit(c) == \E i \in 1..Len(Digits) : Digits[i] = c

digitValue(c) == (CHOOSE i \in 1..Len(Digits) : Digits[i] = c) - 1

\* A value that may be undefined (a missing element of an array).
undefined == [defined |-> FALSE, str |-> <<>>]
definedStr(s) == [defined |-> TRUE, str |-> s]

\* parts[i] of a JavaScript array, counted from 0
at(parts, i) == IF i + 1 <= Len(parts) THEN definedStr(parts[i + 1]) ELSE undefined

\* String.prototype.split(sep) for a one-character separator
RECURSIVE split(_, _)
split(s, sep) ==
    IF \E i \in 1..Len(s) : s[i] = sep
    THEN LET i == CHOOSE k \in 1..Len(s) : s[k] = sep /\ \A j \in 1..(k - 1) : s[j] # sep
         IN <<SubSeq(s, 1, i - 1)>> \o split(SubSeq(s, i + 1, Len(s)), sep)
    ELSE <<s>>

\* A JavaScript number that may be NaN.
NaN == [nan |-> TRUE, value |-> 0]
Num(v) == [nan |-> FALSE, value |-> v]

\* The length of the longest prefix of s made of digits.
digitPrefix(s) ==
    IF \E i \in 1..Len(s) : ~isDigit(s[i])
    THEN (CHOOSE k \in 1..Len(s) : ~isDigit(s[k]) /\ \A j \in 1..(k - 1) : isDigit(s[j])) - 1
    ELSE Len(s)

RECURSIVE digitsToInt(_)
digitsToInt(ds) ==
    IF Len(ds) = 0 THEN 0
    ELSE 10 * digitsToInt(SubSeq(ds, 1, Len(ds) - 1)) + digitValue(ds[Len(ds)])

\* parseInt(x, 10) of a string without white space: an optional sign, then the
\* leading digits; NaN when there is none, and for undefined.
parseInt(x) ==
    IF ~x.defined THEN NaN
    ELSE LET signed == Len(x.str) > 0 /\ x.str[1] \in {"-", "+"}
             body == IF signed THEN SubSeq(x.str, 2, Len(x.str)) ELSE x.str
             k == digitPrefix(body)
             v == digitsToInt(SubSeq(body, 1, k))
         IN IF k = 0 THEN NaN
            ELSE IF signed /\ x.str[1] = "-" THEN Num(0 - v) ELSE Num(v)

\* String.prototype.replace(/"/g, '')
removeQuotes(str) ==
    LET NotQuote(c) == c # "\""
    IN SelectSeq(str, NotQuote)

\* txtData.startsWith('"') && txtData.endsWith('"') ? txtData.slice(1, -1) : txtData
unquote(str) ==
    IF Len(str) > 0 /\ str[1] = "\"" /\ str[Len(str)] = "\""
    THEN SubSeq(str, 2, Len(str) - 1)
    ELSE str

Parsed(r) == [threw |-> FALSE, record |-> r]
ParseThrew == [threw |-> TRUE, record |-> <<>>]

\* The body of response.Answer.forEach(answer => { switch (recordType) ... })
parseAnswer(answer, recordType) ==
    LET parts == split(answer.data, " ")
    IN CASE recordType \in {"A", "AAAA"} ->
                Parsed([ip |-> answer.data, ttl |-> answer.TTL])
         [] recordType = "MX" ->
                Parsed([priority |-> parseInt(at(parts, 0)), host |-> at(parts, 1),
                        ttl |-> answer.TTL])
         [] recordType = "TXT" ->
                Parsed([text |-> unquote(answer.data), ttl |-> answer.TTL])
         [] recordType = "CNAME" ->
                Parsed([target |-> answer.data, ttl |-> answer.TTL])
         [] recordType = "NS" ->
                Parsed([nameserver |-> answer.data, ttl |-> answer.TTL])
         [] recordType = "SOA" ->
                Parsed([mname |-> at(parts, 0), rname |-> at(parts, 1),
                        serial |-> parseInt(at(parts, 2)), refresh |-> parseInt(at(parts, 3)),
                        retry |-> parseInt(at(parts, 4)), expire |-> parseInt(at(parts, 5)),
                        minimum |-> parseInt(at(parts, 6)), ttl |-> answer.TTL])
         [] recordType = "CAA" ->
                \* caaParts[1].replace and caaParts[2].replace throw on undefined
                IF ~at(parts, 1).defined \/ ~at(parts, 2).defined THEN ParseThrew
                ELSE Parsed([flags |-> parseInt(at(parts, 0)),
                             tag |-> removeQuotes(at(parts, 1).str),
                             value |-> removeQuotes(at(parts, 2).str),
                             ttl |-> answer.TTL])
         [] OTHER ->
                Parsed([data |-> answer.data, ttl |-> answer.TTL])

\* The text of an absent error member.
NoError == ""

\* {success: true, records}
SuccessValue(records) == [success |-> TRUE, error |-> NoError, records |-> records]

\* {success: false, error: error.message, records: []}
FailureValue(message) == [success |-> FALSE, error |-> message, records |-> <<>>]

\* DnsService.parseResponse(response, recordType)
parseResponse(body, recordType) ==
    IF ~body.hasAnswer
    THEN [threw |-> FALSE, value |-> SuccessValue(<<>>)]
    ELSE LET parsed == [i \in 1..Len(body.Answer) |-> parseAnswer(body.Answer[i], recordType)]
         IN IF \E i \in 1..Len(parsed) : parsed[i].threw
            THEN [threw |-> TRUE, value |-> <<>>]
            ELSE [threw |-> FALSE,
                  value |-> SuccessValue([i \in 1..Len(parsed) |-> parsed[i].record])]

(***************************************************************************)
(* DnsService.fetchRecords, the copy that queries the resolver itself      *)
(***************************************************************************)
\* The JSON body of a response: what fetchDnsRecords returns and the cache keeps.
Body(n) == [hasAnswer |-> n.hasAnswer, Answer |-> n.Answer]

\* error.message of what fetch, the status test or response.json() threw
errorMessage(n) ==
    CASE n.kind = "neterr" -> "Failed to fetch"
      [] n.kind = "status" -> "DNS query failed"
      [] n.kind = "badjson" -> "Unexpected token in JSON"
      [] OTHER -> NoError

\* Does the call reach fetch(url, {headers})?
knownProvider(provider) == provider \in {"google", "cloudflare"}

\* async fetchRecords(domain, recordType, provider): try { ... } catch (error) { ... }
fetchRecords(n, recordType, provider) ==
    IF ~knownProvider(provider)
    THEN Resolved(FailureValue("Invalid DNS provider specified"))
    ELSE IF n.kind # "ok"
    THEN Resolved(FailureValue(errorMessage(n)))
    ELSE LET parsed == parseResponse(Body(n), recordType)
         IN IF parsed.threw
            THEN Resolved(FailureValue("Cannot read properties of undefined"))
            ELSE Resolved(parsed.value)

(***************************************************************************)
(* background.js: the getDnsRecords handler and its cache                  *)
(***************************************************************************)
\* 2 * 60 * 1000 ms, in minutes
DnsFreshMinutes == 2
SslFreshMinutes == 5
CloudFreshMinutes == 10
\* 30 * 24 * 60 * 60 * 1000 ms, in minutes
ThirtyDaysMinutes == 43200

Domain == "example.com"

\* `dns_${request.domain}_${request.recordType}`
dnsCacheKey(domain, recordType) == <<"dns", domain, recordType>>

\* sessionCache.set('session_start', Date.now())
sessionStart == (<<"session_start">> :> [data |-> Body(NetNoAnswer), timestamp |-> 0])

\* sessionCache.set(cacheKey, {data, timestamp: Date.now()})
cacheSet(cache, key, data, time) == (key :> [data |-> data, timestamp |-> time]) @@ cache

\* cachedData && (Date.now() - cachedData.timestamp < 2 * 60 * 1000)
dnsCacheFresh(cache, key, time) ==
    key \in DOMAIN cache /\ time - cache[key].timestamp < DnsFreshMinutes

\* async function fetchDnsRecords(domain, recordType): the body, or a thrown error
fetchDnsRecords(n) ==
    IF n.kind = "ok" THEN [threw |-> FALSE, data |-> Body(n), message |-> NoError]
    ELSE [threw |-> TRUE, data |-> Body(NetNoAnswer), message |-> errorMessage(n)]

\* sendResponse({success: true, records}) and sendResponse({success: false, error})
ReplySuccess(data) == [success |-> TRUE, records |-> data, error |-> NoError]
ReplyFailure(message) == [success |-> FALSE, records |-> Body(NetNoAnswer), error |-> message]
NoReply == ReplyFailure(NoError)

(***************************************************************************)
(* The calls of one provider client                                        *)
(***************************************************************************)
ClientFns == {"fetchRecords", "fetchRecordsViaBackground",
              "fetchFromGoogleDNS", "fetchFromCloudflare"}

ClientProviders == {"google", "cloudflare", "quad9"}

ClientTypes == {allRecordTypes[i] : i \in 1..Len(allRecordTypes)}

ClientNetOutcomes ==
    {NetErr, NetBadStatus, NetBadJson, NetNoAnswer, NetOk(<<>>),
     NetOk(<<Ans(DataA, 1)>>), NetOk(<<Ans(DataMx, 1)>>),
     NetOk(<<Ans(DataTxt, 1)>>), NetOk(<<Ans(DataCaa, 1)>>)}

\* One finished call: the outcome of its request, whether a request reached
\* the network, whether the answer came from the cache, whether messaging
\* failed, and what the returned promise settled to.
LogEntry(n, sent, cached, lastError, result) ==
    [net |-> n, sent |-> sent, cached |-> cached, lastError |-> lastError, result |-> result]

\* No provider client is in use.
ClientIdle ==
    /\ clFn = "fetchRecords"
    /\ clProvider = "google"
    /\ clType = "A"
    /\ clPc = "ready"
    /\ clNet = NetNoAnswer
    /\ clReply = NoReply
    /\ clLog = <<>>
    /\ sessionCache = sessionStart
    /\ now = 0

ClientInit ==
    /\ clFn \in ClientFns
    /\ clProvider \in ClientProviders
    /\ clFn # "fetchRecords" => clProvider = "google"
    /\ clType \in ClientTypes
    /\ clPc = "ready"
    /\ clNet = NetNoAnswer
    /\ clReply = NoReply
    /\ clLog = <<>>
    /\ sessionCache = sessionStart
    /\ now = 0

\* DnsService.fetchRecords (dns-service.js:21) from call to settled promise
FetchRecords(n) ==
    /\ clFn = "fetchRecords"
    /\ clPc = "ready"
    /\ Len(clLog) < MaxRequests
    /\ clLog' = Append(clLog, LogEntry(n, knownProvider(clProvider), FALSE, FALSE,
                                       fetchRecords(n, clType, clProvider)))
    /\ UNCHANGED <<clFn, clProvider, clType, clPc, clNet, clReply, sessionCache, now>>
    /\ UNCHANGED <<aggVars, laterVars>>

\* fetchFromGoogleDNS / fetchFromCloudflare from call to settled promise
FetchFromResolver(n) ==
    /\ clFn \in {"fetchFromGoogleDNS", "fetchFromCloudflare"}
    /\ clPc = "ready"
    /\ Len(clLog) < MaxRequests
    /\ clLog' = Append(clLog, LogEntry(n, TRUE, FALSE, FALSE,
                                       fetchFunction([fetchFunction |-> clFn], n, clType)))
    /\ UNCHANGED <<clFn, clProvider, clType, clPc, clNet, clReply, sessionCache, now>>
    /\ UNCHANGED <<aggVars, laterVars>>

\* DnsService.fetchRecords (dns-service.js:442): chrome.runtime.sendMessage
SendGetDnsRecords(n) ==
    /\ clFn = "fetchRecordsViaBackground"
    /\ clPc = "ready"
    /\ Len(clLog) < MaxRequests
    /\ clNet' = n
    /\ clPc' = "sent"
    /\ UNCHANGED <<clFn, clProvider, clType, clReply, clLog, sessionCache, now>>
    /\ UNCHANGED <<aggVars, laterVars>>

\* background.js onMessage, request.action === "getDnsRecords"
OnGetDnsRecords ==
    /\ clPc = "sent"
    /\ LET key == dnsCacheKey(Domain, clType)
       IN IF dnsCacheFresh(sessionCache, key, now)
          THEN /\ clReply' = ReplySuccess(sessionCache[key].data)
               /\ clPc' = "cached"
          ELSE /\ clReply' = clReply
               /\ clPc' = "fetching"
    /\ UNCHANGED <<clFn, clProvider, clType, clNet, clLog, sessionCache, now>>
    /\ UNCHANGED <<aggVars, laterVars>>

\* fetchDnsRecords(...).then(data => ...).catch(error => ...) in the handler
FetchDnsRecordsDone ==
    /\ clPc = "fetching"
    /\ LET fetched == fetchDnsRecords(clNet)
       IN IF fetched.threw
          THEN /\ clReply' = ReplyFailure(fetched.message)
               /\ sessionCache' = sessionCache
          ELSE /\ clReply' = ReplySuccess(fetched.data)
               /\ sessionCache' = cacheSet(sessionCache, dnsCacheKey(Domain, clType),
                                           fetched.data, now)
    /\ clPc' = "replied"
    /\ UNCHANGED <<clFn, clProvider, clType, clNet, clLog, now>>
    /\ UNCHANGED <<aggVars, laterVars>>

\* The callback of sendMessage with chrome.runtime.lastError set: no
\* listener took the message.
MessageFails ==
    /\ clPc = "sent"
    /\ clLog' = Append(clLog, LogEntry(clNet, FALSE, FALSE, TRUE, Rejected))
    /\ clPc' = "ready"
    /\ UNCHANGED <<clFn, clProvider, clType, clNet, clReply, sessionCache, now>>
    /\ UNCHANGED <<aggVars, laterVars>>

\* function(response) { ... } of DnsService.fetchRecords (dns-service.js:453)
fetchRecordsCallback(response) ==
    IF ~response.success THEN Rejected ELSE Resolved(response.records)

\* The callback of sendMessage with the background script's response
FetchRecordsCallback ==
    /\ clPc \in {"cached", "replied"}
    /\ clLog' = Append(clLog, LogEntry(clNet, clPc = "replied", clPc = "cached", FALSE,
                                       fetchRecordsCallback(clReply)))
    /\ clPc' = "ready"
    /\ UNCHANGED <<clFn, clProvider, clType, clNet, clReply, sessionCache, now>>
    /\ UNCHANGED <<aggVars, laterVars>>

\* Time passes.
Tick ==
    /\ now < MaxNow
    /\ now' = now + 1
    /\ UNCHANGED <<clFn, clProvider, clType, clPc, clNet, clReply, clLog, sessionCache>>
    /\ UNCHANGED <<aggVars, laterVars>>
(***************************************************************************)
(* security-utils.js: sanitizeDomain                                       *)
(***************************************************************************)
LowerLetters == <<"a", "b", "c", "d", "e", "f", "g", "h", "i", "j", "k", "l", "m",
                  "n", "o", "p", "q", "r", "s", "t", "u", "v", "w", "x", "y", "z">>

UpperLetters == <<"A", "B", "C", "D", "E", "F", "G", "H", "I", "J", "K", "L", "M",
                  "N", "O", "P", "Q", "R", "S", "T", "U", "V", "W", "X", "Y", "Z">>

isLower(c) == \E i \in 1..Len(LowerLetters) : LowerLetters[i] = c

isUpper(c) == \E i \in 1..Len(UpperLetters) : UpperLetters[i] = c

toLowerCase(c) ==
    IF isUpper(c)
    THEN LowerLetters[CHOOSE i \in 1..Len(UpperLetters) : UpperLetters[i] = c]
    ELSE c

\* [a-z] under the flag i
isLetter(c) == isLower(c) \/ isUpper(c)

\* [a-z0-9] under the flag i
isAlnum(c) == isLetter(c) \/ isDigit(c)

\* [\-\.]
isSeparator(c) == c = "-" \/ c = "."

\* s starts with prefix, compared without regard to case
startsWithI(s, prefix) ==
    /\ Len(s) >= Len(prefix)
    /\ \A i \in 1..Len(prefix) : toLowerCase(s[i]) = prefix[i]

drop(s, n) == SubSeq(s, n + 1, Len(s))

Https == <<"h", "t", "t", "p", "s", ":", "/", "/">>
Http == <<"h", "t", "t", "p", ":", "/", "/">>
Www == <<"w", "w", "w", ".">>

\* domain.replace(/^(https?:\/\/)?(www\.)?/i, '')
removePrefixes(domain) ==
    LET noProtocol == IF startsWithI(domain, Https) THEN drop(domain, Len(Https))
                      ELSE IF startsWithI(domain, Http) THEN drop(domain, Len(Http))
                      ELSE domain
    IN IF startsWithI(noProtocol, Www) THEN drop(noProtocol, Len(Www)) ELSE noProtocol

validDomainChar(c) == isAlnum(c) \/ isSeparator(c)

\* domain.replace(/[^a-z0-9.-]/gi, '')
removeInvalidChars(domain) == SelectSeq(domain, validDomainChar)

\* ^[a-z0-9]+([\-\.]{1}[a-z0-9]+)*$ : runs of letters and digits, joined by
\* single separators
labelsMatch(s) ==
    /\ Len(s) > 0
    /\ isAlnum(s[1])
    /\ isAlnum(s[Len(s)])
    /\ \A i \in 1..Len(s) : validDomainChar(s[i])
    /\ \A i \in 1..(Len(s) - 1) : ~(isSeparator(s[i]) /\ isSeparator(s[i + 1]))

\* /^[a-z0-9]+([\-\.]{1}[a-z0-9]+)*\.[a-z]{2,}$/i.test(domain)
domainRegexTest(domain) ==
    \E k \in 1..Len(domain) :
        /\ domain[k] = "."
        /\ Len(domain) - k >= 2
        /\ \A i \in (k + 1)..Len(domain) : isLetter(domain[i])
        /\ labelsMatch(SubSeq(domain, 1, k - 1))

sanitizeDomain(domain) ==
    IF domain = <<>> THEN <<>>
    ELSE LET cleaned == removeInvalidChars(removePrefixes(domain))
         IN IF ~domainRegexTest(cleaned) THEN <<>> ELSE cleaned

(***************************************************************************)
(* The popup that sanitizes the tab's hostname and asks the background     *)
(* script for the records                                                  *)
(***************************************************************************)
HostChars == {"a", "1", ".", "-"}

RECURSIVE StringsUpTo(_)
StringsUpTo(n) ==
    IF n = 0 THEN {<<>>}
    ELSE LET shorter == StringsUpTo(n - 1)
         IN shorter \cup {Append(s, c) : s \in {x \in shorter : Len(x) = n - 1}, c \in HostChars}

HostWww == <<"w", "w", "w", ".", "a", ".", "c", "o">>
HostUpper == <<"A", ".", "C", "o">>
HostUnderscore == <<"a", "_", ".", "c", "o">>

Hostnames == StringsUpTo(MaxHost) \cup {HostWww, HostUpper, HostUnderscore}

popupRecordTypes == <<"A", "AAAA", "CNAME", "MX", "TXT", "CAA">>

PopupTypeSet == {popupRecordTypes[i] : i \in 1..Len(popupRecordTypes)}

\* window.SecurityUtils ? window.SecurityUtils.sanitizeDomain(domain) : domain
sanitizedDomain(hostname, securityUtils) ==
    IF securityUtils THEN sanitizeDomain(hostname) ELSE hostname

GetDnsRecords(domain, recordType) ==
    [action |-> "getDnsRecords", domain |-> domain, recordType |-> recordType]

GetCloudProvider(domain) ==
    [action |-> "getCloudProvider", domain |-> domain, recordType |-> "A"]

\* SessionData.getDnsRecords(domain): null for a domain that is empty
sessionHasDns(domain, cachedTypes, recordType) == domain # <<>> /\ recordType \in cachedTypes

\* loadDnsRecords(domain): fetchDnsRecords for each type in turn, which sends
\* a message unless the session data holds the type
RECURSIVE dnsMessages(_, _, _)
dnsMessages(domain, cachedTypes, i) ==
    IF i = 0 THEN <<>>
    ELSE dnsMessages(domain, cachedTypes, i - 1) \o
         (IF sessionHasDns(domain, cachedTypes, popupRecordTypes[i])
          THEN <<>>
          ELSE <<GetDnsRecords(domain, popupRecordTypes[i])>>)

\* detectCloudProvider(domain)
cloudMessages(domain, cachedCloud) ==
    IF cachedCloud THEN <<>> ELSE <<GetCloudProvider(domain)>>

\* https://dns.google/resolve?name=...&type=...
ResolverRequest(domain, recordType) == [name |-> domain, type |-> recordType]

PopupIdle ==
    /\ pHost = <<>>
    /\ pSecurityUtils = TRUE
    /\ pSessionDns = {}
    /\ pSessionCloud = FALSE
    /\ pBgFresh = FALSE
    /\ pPc = "closed"
    /\ pShown = <<>>
    /\ pSent = <<>>
    /\ pHandled = 0
    /\ pRequests = <<>>

PopupInit ==
    /\ pHost \in Hostnames
    /\ pSecurityUtils \in BOOLEAN
    /\ pSessionDns \in {{}, {"A"}, PopupTypeSet}
    /\ sanitizedDomain(pHost, pSecurityUtils) = <<>> => pSessionDns = {}
    /\ pSessionCloud \in BOOLEAN
    /\ pBgFresh \in BOOLEAN
    /\ pPc = "opened"
    /\ pShown = <<>>
    /\ pSent = <<>>
    /\ pHandled = 0
    /\ pRequests = <<>>

\* The callback of chrome.tabs.query in the DOMContentLoaded handler
TabsQueryCallback ==
    /\ pPc = "opened"
    /\ LET domain == sanitizedDomain(pHost, pSecurityUtils)
       IN /\ pShown' = domain
          /\ pSent' = dnsMessages(domain, pSessionDns, Len(popupRecordTypes)) \o
                      cloudMessages(domain, pSessionCloud)
    /\ pPc' = "loading"
    /\ UNCHANGED <<pHost, pSecurityUtils, pSessionDns, pSessionCloud, pBgFresh,
                   pHandled, pRequests>>
    /\ UNCHANGED notPopupVars

\* background.js onMessage for the next message of the popup: answered from
\* sessionCache when the entry is fresh, else by a request to the resolver
OnPopupMessage ==
    /\ pPc \in {"loading", "shown"}
    /\ pHandled < Len(pSent)
    /\ LET request == pSent[pHandled + 1]
       IN pRequests' = IF pBgFresh THEN pRequests
                       ELSE Append(pRequests, ResolverRequest(request.domain, request.recordType))
    /\ pHandled' = pHandled + 1
    /\ UNCHANGED <<pHost, pSecurityUtils, pSessionDns, pSessionCloud, pBgFresh,
                   pPc, pShown, pSent>>
    /\ UNCHANGED notPopupVars

\* setTimeout(() => { dnsLoader.classList.add('hidden') }, 3000)
PopupLoaderTimer ==
    /\ pPc = "loading"
    /\ pPc' = "shown"
    /\ UNCHANGED <<pHost, pSecurityUtils, pSessionDns, pSessionCloud, pBgFresh,
                   pShown, pSent, pHandled, pRequests>>
    /\ UNCHANGED notPopupVars

(***************************************************************************)
(* privacy-policy.html: SessionData                                        *)
(*                                                                         *)
(* A JavaScript value is a number, NaN, null, undefined or a reference to  *)
(* an object of the heap; an object has at most the one property x.        *)
(***************************************************************************)
JsNumber(n) == [kind |-> "number", num |-> n]
JsNaN == [kind |-> "NaN", num |-> 0]
JsNull == [kind |-> "null", num |-> 0]
JsUndefined == [kind |-> "undefined", num |-> 0]
ObjectRef(r) == [kind |-> "object", num |-> r]

isObject(v) == v.kind = "object"

Obj(x) == [hasX |-> TRUE, x |-> x]
EmptyObj == [hasX |-> FALSE, x |-> JsUndefined]

\* JSON.stringify then JSON.parse of an object: a property that is undefined
\* is left out, NaN becomes null
jsonObject(o) ==
    IF ~o.hasX \/ o.x.kind = "undefined" THEN EmptyObj
    ELSE IF o.x.kind = "NaN" THEN Obj(JsNull)
    ELSE o

Cloned(h, v) == [threw |-> FALSE, heap |-> h, value |-> v]
CloneThrew(h) == [threw |-> TRUE, heap |-> h, value |-> JsUndefined]

\* The stored and returned values are the caller's own objects.
jsonClone_Alias(h, value) == Cloned(h, value)

\* JSON.parse(JSON.stringify(value)): JSON.stringify(undefined) is undefined,
\* which JSON.parse rejects with a SyntaxError
jsonClone(h, value) ==
    IF value.kind = "undefined" THEN CloneThrew(h)
    ELSE IF value.kind = "NaN" THEN Cloned(h, JsNull)
    ELSE IF isObject(value)
         THEN Cloned(Append(h, jsonObject(h[value.num])), ObjectRef(Len(h) + 1))
         ELSE Cloned(h, value)

\* What a value looks like to a deep comparison
snapshot(h, v) ==
    IF isObject(v) THEN [kind |-> "object", num |-> 0, obj |-> h[v.num]]
    ELSE [kind |-> v.kind, num |-> v.num, obj |-> EmptyObj]

\* memoryStore: a Map from key to {value, expiryTime}
NoItems == [k \in {} |-> JsNull]

mapHas(store, key) == key \in DOMAIN store

mapSet(store, key, item) == (key :> item) @@ store

mapDelete(store, key) == [k \in (DOMAIN store) \ {key} |-> store[k]]

\* The store keeps its items.
mapClear_Keep(store) == store

mapClear(store) == NoItems

\* !key
emptyKey(key) == key = ""

\* An entry is served whatever its expiry time.
expired_Never(item, time) == FALSE

\* Date.now() > item.expiryTime
expired(item, time) == time > item.expiryTime

Timer(key, fireAt) == [key |-> key, at |-> fireAt]

SdKeys == {"", "dns_a", "ssl_a"}

SdScalars == {JsNumber(0), JsNaN, JsUndefined}

SdObjectValues == {JsNumber(0), JsNaN}

\* The values given to set: scalars and the objects of the page
SdValues == SdScalars \cup {ObjectRef(r) : r \in 1..MaxObjects}

\* The call that ran in the step before, if it was one of set, get, remove
\* and clear
SdOp(op, key, threw) == [op |-> op, key |-> key, threw |-> threw]

NoOp == SdOp("none", "", FALSE)

\* What the last get returned: wasPresent and stale describe the item it
\* found (stale: its expiry time was earlier than the time of the call),
\* afterSet tells that a set of the key was the call before, elapsed that
\* the expiry given by the last set of the key had passed
SdResult(key, h, value, wasPresent, stale, afterSet, elapsed) ==
    [key |-> key, snap |-> snapshot(h, value), wasPresent |-> wasPresent, stale |-> stale,
     afterSet |-> afterSet, elapsed |-> elapsed]

NoResult == SdResult("", <<>>, JsNull, FALSE, FALSE, FALSE, FALSE)

\* The last successful set of a key that no remove and no clear followed:
\* the value given, the value stored, the expiry time and whether the set
\* replaced an earlier one
Live(given, stored, expiry, ttl, overwrote) ==
    [live |-> TRUE, given |-> given, stored |-> stored, expiry |-> expiry, ttl |-> ttl,
     overwrote |-> overwrote]

NotLive == [live |-> FALSE, given |-> snapshot(<<>>, JsNull),
            stored |-> snapshot(<<>>, JsNull), expiry |-> 0, ttl |-> 0, overwrote |-> FALSE]

SessionIdle ==
    /\ memoryStore = NoItems
    /\ timers = {}
    /\ heap = <<>>
    /\ callerRefs = {}
    /\ sdOps = 0
    /\ sdLastOp = NoOp
    /\ sdResult = NoResult
    /\ sdLive = [k \in SdKeys |-> NotLive]
    /\ sdCleared = {}

SessionInit ==
    /\ memoryStore = NoItems
    /\ timers = {}
    /\ heap = <<>>
    /\ callerRefs = {}
    /\ sdOps = 0
    /\ sdLastOp = NoOp
    /\ sdResult = NoResult
    /\ sdLive = [k \in SdKeys |-> NotLive]
    /\ sdCleared = {}

\* The page creates an object {x: ...}.
NewObject(x) ==
    /\ cMode = "SessionData"
    /\ sdOps < MaxOps
    /\ Len(heap) < MaxObjects
    /\ sdOps' = sdOps + 1
    /\ heap' = Append(heap, Obj(x))
    /\ callerRefs' = callerRefs \cup {Len(heap) + 1}
    /\ sdLastOp' = NoOp
    /\ UNCHANGED <<cMode, memoryStore, timers, sdResult, sdLive, sdCleared>>
    /\ UNCHANGED notSessionVars

\* The page assigns to the property x of an object it holds.
MutateObject(r, x) ==
    /\ cMode = "SessionData"
    /\ sdOps < MaxOps
    /\ r \in callerRefs
    /\ heap[r] # Obj(x)
    /\ sdOps' = sdOps + 1
    /\ heap' = [heap EXCEPT ![r] = Obj(x)]
    /\ sdLastOp' = NoOp
    /\ UNCHANGED <<cMode, memoryStore, timers, callerRefs, sdResult, sdLive, sdCleared>>
    /\ UNCHANGED notSessionVars

\* SessionData.set(key, value, expiryMs)
SessionSet(key, value, expiryMs) ==
    /\ cMode = "SessionData"
    /\ sdOps < MaxOps
    /\ isObject(value) => (value.num \in callerRefs /\ Len(heap) < MaxObjects)
    /\ sdOps' = sdOps + 1
    /\ LET clone == jsonClone(heap, value)
           threw == emptyKey(key) \/ clone.threw
       IN /\ sdLastOp' = SdOp("set", key, threw)
          /\ IF threw
             THEN UNCHANGED <<memoryStore, timers, heap, sdLive, sdCleared>>
             ELSE /\ memoryStore' = mapSet(memoryStore, key,
                                           [value |-> clone.value,
                                            expiryTime |-> now + expiryMs])
                  /\ timers' = timers \cup {Timer(key, now + expiryMs)}
                  /\ heap' = clone.heap
                  /\ sdLive' = [sdLive EXCEPT ![key] =
                                    Live(snapshot(heap, value),
                                         snapshot(clone.heap, clone.value),
                                         now + expiryMs, expiryMs, sdLive[key].live)]
                  /\ sdCleared' = sdCleared \ {key}
    /\ UNCHANGED <<cMode, callerRefs, sdResult>>
    /\ UNCHANGED notSessionVars

\* SessionData.get(key)
SessionGet(key) ==
    /\ cMode = "SessionData"
    /\ sdOps < MaxOps
    /\ (mapHas(memoryStore, key) /\ isObject(memoryStore[key].value)) => Len(heap) < MaxObjects
    /\ sdOps' = sdOps + 1
    /\ sdLastOp' = SdOp("get", key, emptyKey(key))
    /\ LET afterSet == sdLastOp = SdOp("set", key, FALSE)
           elapsed == ~emptyKey(key) /\ sdLive[key].live /\ now > sdLive[key].expiry
       IN IF emptyKey(key)
          THEN UNCHANGED <<memoryStore, heap, callerRefs, sdResult>>
          ELSE IF ~mapHas(memoryStore, key)
          THEN /\ sdResult' = SdResult(key, heap, JsNull, FALSE, FALSE, afterSet, elapsed)
               /\ UNCHANGED <<memoryStore, heap, callerRefs>>
          ELSE IF expired(memoryStore[key], now)
          THEN /\ memoryStore' = mapDelete(memoryStore, key)
               /\ sdResult' = SdResult(key, heap, JsNull, TRUE,
                                       memoryStore[key].expiryTime < now, afterSet, elapsed)
               /\ UNCHANGED <<heap, callerRefs>>
          ELSE LET clone == jsonClone(heap, memoryStore[key].value)
               IN /\ heap' = clone.heap
                  /\ callerRefs' = IF isObject(clone.value)
                                   THEN callerRefs \cup {clone.value.num}
                                   ELSE callerRefs
                  /\ sdResult' = SdResult(key, clone.heap, clone.value, TRUE,
                                          memoryStore[key].expiryTime < now, afterSet, elapsed)
                  /\ UNCHANGED memoryStore
    /\ UNCHANGED <<cMode, timers, sdLive, sdCleared>>
    /\ UNCHANGED notSessionVars

\* SessionData.remove(key)
SessionRemove(key) ==
    /\ cMode = "SessionData"
    /\ sdOps < MaxOps
    /\ sdOps' = sdOps + 1
    /\ sdLastOp' = SdOp("remove", key, emptyKey(key))
    /\ IF emptyKey(key)
       THEN UNCHANGED <<memoryStore, sdLive>>
       ELSE /\ memoryStore' = mapDelete(memoryStore, key)
            /\ sdLive' = [sdLive EXCEPT ![key] = NotLive]
    /\ UNCHANGED <<cMode, timers, heap, callerRefs, sdResult, sdCleared>>
    /\ UNCHANGED notSessionVars

\* SessionData.clear()
SessionClear ==
    /\ cMode = "SessionData"
    /\ sdOps < MaxOps
    /\ sdOps' = sdOps + 1
    /\ sdLastOp' = SdOp("clear", "", FALSE)
    /\ memoryStore' = mapClear(memoryStore)
    /\ sdLive' = [k \in SdKeys |-> NotLive]
    /\ sdCleared' = DOMAIN memoryStore
    /\ UNCHANGED <<cMode, timers, heap, callerRefs, sdResult>>
    /\ UNCHANGED notSessionVars

\* The callback of the setTimeout of set, expiryMs after the call or later
ExpiryTimer(t) ==
    /\ cMode = "SessionData"
    /\ t \in timers
    /\ now >= t.at
    /\ timers' = timers \ {t}
    /\ memoryStore' = IF mapHas(memoryStore, t.key) THEN mapDelete(memoryStore, t.key)
                      ELSE memoryStore
    /\ sdLastOp' = NoOp
    /\ UNCHANGED <<cMode, heap, callerRefs, sdOps, sdResult, sdLive, sdCleared>>
    /\ UNCHANGED notSessionVars

(***************************************************************************)
(* background.js: the onMessage listener and sessionCache                  *)
(***************************************************************************)
Hostname == "a.co"

\* A request url of the hostname: https://a.co/ or http://a.co/
Url(https) == [https |-> https, hostname |-> Hostname]

\* url.startsWith('https://')
startsWithHttps(url) == url.https

sslCacheKey(url) == <<"ssl", url.hostname>>

cloudCacheKey(domain) == <<"cloud", domain>>

\* Date.now() - cachedData.timestamp < limit
cacheFresh(cache, key, time, limit) ==
    /\ key \in DOMAIN cache
    /\ time - cache[key].timestamp < limit

NotApplicable == [known |-> FALSE, time |-> 0]

Instant(time) == [known |-> TRUE, time |-> time]

\* The certificate object of the getSslCertificate handler
certData(url, time) ==
    LET isSecure == startsWithHttps(url)
    IN [secure |-> isSecure,
        protocol |-> IF isSecure THEN "TLS" ELSE "None",
        issuer |-> IF isSecure THEN "Certificate Authority" ELSE "None",
        validFrom |-> IF isSecure THEN Instant(time) ELSE NotApplicable,
        validUntil |-> IF isSecure THEN Instant(time + ThirtyDaysMinutes) ELSE NotApplicable]

CloudGuesses == {"Amazon AWS", "Unknown"}

\* detectCloudProvider(domain): nA and nCname are the outcomes of its two
\* resolver requests, guess is the outcome of the CNAME and address tests
detectCloudProvider(nA, nCname, guess) ==
    IF fetchDnsRecords(nA).threw
    THEN [name |-> "Error", confidence |-> 0, calls |-> 1]
    ELSE IF ~nA.hasAnswer \/ Len(nA.Answer) = 0
    THEN [name |-> "Unknown", confidence |-> 0, calls |-> 1]
    ELSE IF fetchDnsRecords(nCname).threw
    THEN [name |-> "Error", confidence |-> 0, calls |-> 2]
    ELSE [name |-> guess, confidence |-> IF guess = "Unknown" THEN 1 ELSE 7, calls |-> 2]

GetSslCertificate(url) == [action |-> "getSslCertificate", url |-> url]

ClearSessionData == [action |-> "clearSessionData"]

BgNetOutcomes == {NetErr, NetNoAnswer, NetOk(AnswersOne)}

\* The age of the entry of a key, -1 when the cache has none
entryAge(cache, key, time) ==
    IF key \in DOMAIN cache THEN time - cache[key].timestamp ELSE -1

\* A response of the listener, with the age of the cache entry it was taken
\* from and the number of requests to the resolver it took
BgReply(action, success, payload, fromCache, age, calls) ==
    [action |-> action, success |-> success, payload |-> payload, fromCache |-> fromCache,
     age |-> age, calls |-> calls]

NoBgReply == BgReply("none", FALSE, NoError, FALSE, -1, 0)

\* A fetch the listener waits for, with the age the entry of its key had
\* when the request came; cleared tells that the cache was reset since
InFlight(action, key, nA, nCname, guess, age) ==
    [action |-> action, key |-> key, nA |-> nA, nCname |-> nCname, guess |-> guess,
     age |-> age, cleared |-> FALSE]

\* The fetches in flight go on when the cache is reset.
acrossReset(inFlight) == {[f EXCEPT !.cleared = TRUE] : f \in inFlight}

\* The request the popup repeats in a run of the listener
BackgroundModes == {"getDnsRecords", "getSslCertificate", "getCloudProvider"}

BackgroundIdle ==
    /\ bgInFlight = {}
    /\ bgReply = NoBgReply
    /\ bgCleared = {}

\* request.action === "getDnsRecords", up to the call of fetchDnsRecords
OnMessageGetDnsRecords(recordType, n) ==
    /\ cMode = "getDnsRecords"
    /\ LET key == dnsCacheKey(Domain, recordType)
       IN IF cacheFresh(sessionCache, key, now, DnsFreshMinutes)
          THEN /\ bgReply' = BgReply("getDnsRecords", TRUE, sessionCache[key].data, TRUE,
                                     now - sessionCache[key].timestamp, 0)
               /\ UNCHANGED bgInFlight
          ELSE /\ Cardinality(bgInFlight) < MaxInFlight
               /\ bgInFlight' = bgInFlight \cup
                                    {InFlight("getDnsRecords", key, n, NetNoAnswer, "Unknown",
                                              entryAge(sessionCache, key, now))}
               /\ UNCHANGED bgReply
    /\ UNCHANGED <<cMode, sessionCache, now, bgCleared>>
    /\ UNCHANGED notBackgroundVars

\* fetchDnsRecords(...).then(data => ...).catch(error => ...) of the listener
OnDnsRecordsFetched(f) ==
    /\ cMode = "getDnsRecords"
    /\ f \in bgInFlight
    /\ f.action = "getDnsRecords"
    /\ bgInFlight' = bgInFlight \ {f}
    /\ LET fetched == fetchDnsRecords(f.nA)
       IN IF fetched.threw
          THEN /\ bgReply' = BgReply("getDnsRecords", FALSE, fetched.message, FALSE, f.age, 1)
               /\ UNCHANGED <<sessionCache, bgCleared>>
          ELSE /\ sessionCache' = cacheSet(sessionCache, f.key, fetched.data, now)
               /\ bgReply' = BgReply("getDnsRecords", TRUE, fetched.data, FALSE, f.age, 1)
               /\ bgCleared' = bgCleared \ {f.key}
    /\ UNCHANGED <<cMode, now>>
    /\ UNCHANGED notBackgroundVars

\* request.action === "getSslCertificate"
OnMessageGetSslCertificate(url) ==
    /\ cMode = "getSslCertificate"
    /\ LET key == sslCacheKey(url)
       IN IF cacheFresh(sessionCache, key, now, SslFreshMinutes)
          THEN /\ bgReply' = BgReply("getSslCertificate", TRUE, sessionCache[key].data, TRUE,
                                     now - sessionCache[key].timestamp, 0)
               /\ UNCHANGED <<sessionCache, bgCleared>>
          ELSE /\ sessionCache' = cacheSet(sessionCache, key, certData(url, now), now)
               /\ bgReply' = BgReply("getSslCertificate", TRUE, certData(url, now), FALSE,
                                     entryAge(sessionCache, key, now), 0)
               /\ bgCleared' = bgCleared \ {key}
    /\ UNCHANGED <<cMode, now, bgInFlight>>
    /\ UNCHANGED notBackgroundVars

\* request.action === "getCloudProvider", up to the call of detectCloudProvider
OnMessageGetCloudProvider(nA, nCname, guess) ==
    /\ cMode = "getCloudProvider"
    /\ LET key == cloudCacheKey(Domain)
       IN IF cacheFresh(sessionCache, key, now, CloudFreshMinutes)
          THEN /\ bgReply' = BgReply("getCloudProvider", TRUE, sessionCache[key].data, TRUE,
                                     now - sessionCache[key].timestamp, 0)
               /\ UNCHANGED bgInFlight
          ELSE /\ Cardinality(bgInFlight) < MaxInFlight
               /\ bgInFlight' = bgInFlight \cup
                                    {InFlight("getCloudProvider", key, nA, nCname, guess,
                                              entryAge(sessionCache, key, now))}
               /\ UNCHANGED bgReply
    /\ UNCHANGED <<cMode, sessionCache, now, bgCleared>>
    /\ UNCHANGED notBackgroundVars

\* detectCloudProvider(...).then(data => ...) of the listener
OnCloudProviderDetected(f) ==
    /\ cMode = "getCloudProvider"
    /\ f \in bgInFlight
    /\ f.action = "getCloudProvider"
    /\ bgInFlight' = bgInFlight \ {f}
    /\ LET detected == detectCloudProvider(f.nA, f.nCname, f.guess)
           data == [name |-> detected.name, confidence |-> detected.confidence]
       IN /\ sessionCache' = cacheSet(sessionCache, f.key, data, now)
          /\ bgReply' = BgReply("getCloudProvider", TRUE, data, FALSE, f.age, detected.calls)
    /\ bgCleared' = bgCleared \ {f.key}
    /\ UNCHANGED <<cMode, now>>
    /\ UNCHANGED notBackgroundVars

\* resetSessionData(): sessionCache.clear()
resetSessionData(cache) == [k \in {} |-> [data |-> NoError, timestamp |-> 0]]

\* request.action === "clearSessionData"
OnMessageClearSessionData ==
    /\ cMode \in BackgroundModes
    /\ sessionCache' = resetSessionData(sessionCache)
    /\ bgCleared' = DOMAIN sessionCache
    /\ bgReply' = BgReply("clearSessionData", TRUE, "Session data cleared", FALSE, -1, 0)
    /\ bgInFlight' = acrossReset(bgInFlight)
    /\ UNCHANGED <<cMode, now>>
    /\ UNCHANGED notBackgroundVars

\* chrome.runtime.onInstalled: resetSessionData()
OnInstalled ==
    /\ cMode \in BackgroundModes
    /\ sessionCache' = resetSessionData(sessionCache)
    /\ bgCleared' = DOMAIN sessionCache
    /\ bgInFlight' = acrossReset(bgInFlight)
    /\ UNCHANGED <<cMode, now, bgReply>>
    /\ UNCHANGED notBackgroundVars

\* Time passes.
CacheTick ==
    /\ cMode # "none"
    /\ now < (IF cMode = "SessionData" THEN MaxTime ELSE MaxMinute)
    /\ now' = now + 1
    /\ sdLastOp' = NoOp
    /\ eCall' = "none"
    /\ eOutcome' = [threw |-> FALSE, results |-> <<>>]
    /\ UNCHANGED <<memoryStore, timers, heap, callerRefs, sdOps, sdResult, sdLive, sdCleared>>
    /\ UNCHANGED <<clFn, clProvider, clType, clPc, clNet, clReply, clLog, sessionCache>>
    /\ UNCHANGED <<eDnsData, eSslData, eDomain, eUrl, eSecurityUtils, eDmarcTxt>>
    /\ UNCHANGED <<aggVars, popupVars, cMode, bgVars, secVars>>

(***************************************************************************)
(* The security evaluator: background.js dnsSecurityChecks,                *)
(* sslSecurityChecks and runSecurityChecks, and isSuspiciousDomain of      *)
(* security-utils.js.  Strings the code inspects are sequences of          *)
(* characters.                                                             *)
(***************************************************************************)
MinutesPerDay == 1440

\* The text is compared as it is written.
toLowerCaseString_Same(s) == s

\* String.prototype.toLowerCase
toLowerCaseString(s) == [i \in 1..Len(s) |-> toLowerCase(s[i])]

\* s has the characters of lit from position i on
literalAt(s, i, lit) ==
    /\ i >= 1
    /\ i + Len(lit) - 1 <= Len(s)
    /\ \A k \in 1..Len(lit) : s[i + k - 1] = lit[k]

\* String.prototype.startsWith
startsWith(s, prefix) == literalAt(s, 1, prefix)

\* String.prototype.includes
stringIncludes(s, sub) == \E i \in 1..(Len(s) + 1) : literalAt(s, i, sub)

\* /lit$/
endsWith(s, lit) == literalAt(s, Len(s) - Len(lit) + 1, lit)

\* /brand.*\.(?!brand\.com)/i on a string already in lower case
brandLookalike(s, brand) ==
    \E i \in 1..Len(s) :
        /\ literalAt(s, i, brand)
        /\ \E j \in (i + Len(brand))..Len(s) :
               /\ s[j] = "."
               /\ ~literalAt(s, j + 1, brand \o <<".", "c", "o", "m">>)

\* \d{n} at position i
digitsAt(s, i, n) == i >= 1 /\ i + n - 1 <= Len(s) /\ \A k \in i..(i + n - 1) : isDigit(s[k])

\* /\d{1,3}\.\d{1,3}\.\d{1,3}\.\d{1,3}/
rawIpAddress(s) ==
    \E i \in 1..Len(s) : \E a \in 1..3, b \in 1..3, c \in 1..3, d \in 1..3 :
        /\ digitsAt(s, i, a)
        /\ literalAt(s, i + a, <<".">>)
        /\ digitsAt(s, i + a + 1, b)
        /\ literalAt(s, i + a + 1 + b, <<".">>)
        /\ digitsAt(s, i + a + b + 2, c)
        /\ literalAt(s, i + a + b + 2 + c, <<".">>)
        /\ digitsAt(s, i + a + b + c + 3, d)

\* /.*lit.*\./i on a string already in lower case
literalThenDot(s, lit) ==
    \E i \in 1..Len(s) :
        /\ literalAt(s, i, lit)
        /\ \E j \in (i + Len(lit))..Len(s) : s[j] = "."

Paypal == <<"p", "a", "y", "p", "a", "l">>
Google == <<"g", "o", "o", "g", "l", "e">>
Apple == <<"a", "p", "p", "l", "e">>
Microsoft == <<"m", "i", "c", "r", "o", "s", "o", "f", "t">>

\* security-utils.js isSuspiciousDomain; the empty string is falsy
isSuspiciousDomain(domain) ==
    LET s == toLowerCaseString(domain) IN
    /\ domain # <<>>
    /\ \/ brandLookalike(s, Paypal)
       \/ brandLookalike(s, Google)
       \/ brandLookalike(s, Apple)
       \/ brandLookalike(s, Microsoft)
       \/ rawIpAddress(domain)
       \/ endsWith(s, <<".", "t", "k">>)
       \/ endsWith(s, <<".", "x", "y", "z">>)
       \/ literalThenDot(s, <<"-", "s", "e", "c", "u", "r", "e", "-">>)
       \/ literalThenDot(s, <<"-", "l", "o", "g", "i", "n", "-">>)
       \/ stringIncludes(s, <<".", "t", "e", "m", "p", ".">>)
       \/ stringIncludes(s, <<".", "s", "e", "t", "u", "p", ".">>)

\* What a check returns.  check names the function that made the finding.
Finding(check, status, message, severity) ==
    [check |-> check, status |-> status, message |-> message, severity |-> severity]

\* One answer of a resolver response
Answer(name, data) == [name |-> name, data |-> data]

\* The response kept for one record type: dnsData[type].  present is FALSE
\* for a type dnsData has no property for; hasAnswer is FALSE for a response
\* without the property Answer.
DnsResponse(hasAnswer, answers, ad) ==
    [present |-> TRUE, hasAnswer |-> hasAnswer, Answer |-> answers, AD |-> ad]

NoResponse == [present |-> FALSE, hasAnswer |-> FALSE, Answer |-> <<>>, AD |-> FALSE]

EvalTypes == {"TXT", "CAA", "MX", "A"}

\* dnsData; present is FALSE for null or undefined
DnsData(txt, caa, mx, a) ==
    [present |-> TRUE, types |-> [t \in EvalTypes |->
        CASE t = "TXT" -> txt [] t = "CAA" -> caa [] t = "MX" -> mx [] OTHER -> a]]

NoDnsData == [present |-> FALSE, types |-> [t \in EvalTypes |-> NoResponse]]

\* !dnsData || !dnsData[type] || !dnsData[type].Answer || dnsData[type].Answer.length === 0
noAnswers(dnsData, type) ==
    \/ ~dnsData.present
    \/ ~dnsData.types[type].present
    \/ ~dnsData.types[type].hasAnswer
    \/ Len(dnsData.types[type].Answer) = 0

\* dnsData.TXT.Answer.some(record => record.data && record.data.toLowerCase().includes(tag))
someTxtIncludes(dnsData, tag) ==
    \E i \in 1..Len(dnsData.types["TXT"].Answer) :
        LET data == dnsData.types["TXT"].Answer[i].data IN
        data # <<>> /\ stringIncludes(toLowerCaseString(data), tag)

checkSPF(dnsData) ==
    IF noAnswers(dnsData, "TXT")
    THEN Finding("SPF", "warning", "No TXT records found, cannot verify SPF configuration",
                 "medium")
    ELSE IF ~someTxtIncludes(dnsData, <<"v", "=", "s", "p", "f", "1">>)
    THEN Finding("SPF", "warning", "No SPF record found", "high")
    ELSE Finding("SPF", "success", "SPF record found", "none")

checkDMARC(dnsData, domain) ==
    IF noAnswers(dnsData, "TXT")
    THEN Finding("DMARC", "warning", "No TXT records found, cannot verify DMARC configuration",
                 "medium")
    ELSE IF ~someTxtIncludes(dnsData, <<"v", "=", "d", "m", "a", "r", "c", "1">>)
    THEN Finding("DMARC", "warning", "No DMARC record found", "high")
    ELSE Finding("DMARC", "success", "DMARC record found", "none")

checkDNSSEC(dnsData) ==
    IF \E t \in EvalTypes : dnsData.types[t].present /\ dnsData.types[t].AD
    THEN Finding("DNSSEC", "success", "DNSSEC appears to be enabled", "none")
    ELSE Finding("DNSSEC", "info", "DNSSEC validation not detected", "medium")

checkCAA(dnsData) ==
    IF noAnswers(dnsData, "CAA")
    THEN Finding("CAA", "info", "No CAA records found", "medium")
    ELSE Finding("CAA", "success", "CAA records found", "none")

checkMXRecords(dnsData) ==
    IF noAnswers(dnsData, "MX")
    THEN Finding("MX", "info", "No MX records found", "low")
    ELSE Finding("MX", "success", "MX records found", "none")

checkWildcardRecords(dnsData) ==
    IF \E t \in EvalTypes :
           /\ dnsData.types[t].present
           /\ dnsData.types[t].hasAnswer
           /\ \E i \in 1..Len(dnsData.types[t].Answer) :
                  stringIncludes(dnsData.types[t].Answer[i].name, <<"*">>)
    THEN Finding("wildcard", "info", "Wildcard DNS records detected", "low")
    ELSE Finding("wildcard", "success", "No wildcard DNS records detected", "none")

\* The url argument; defined is FALSE for undefined
EvalUrl(text) == [defined |-> TRUE, text |-> text]

UndefinedUrl == [defined |-> FALSE, text |-> <<>>]

\* url.startsWith is a TypeError for an undefined url
httpsThrows(url) == ~url.defined

\* Every url is taken to use HTTPS.
checkHTTPS_AlwaysHttps(url) ==
    Finding("HTTPS", "success", "Site is using HTTPS", "none")

\* checkHTTPS for a url that is a string; see httpsThrows
checkHTTPS(url) ==
    IF ~startsWith(url.text, Https)
    THEN Finding("HTTPS", "warning", "This site is not using HTTPS", "high")
    ELSE Finding("HTTPS", "success", "Site is using HTTPS", "none")

\* certData.validUntil: undefined, the text 'N/A', a text that is no date, or
\* the text of a date
ValidUntilKinds == {"undefined", "N/A", "text", "date"}

ValidUntil(kind, time) == [kind |-> kind, time |-> time]

\* certData; present is FALSE for null or undefined
CertData(validUntil) == [present |-> TRUE, validUntil |-> validUntil]

NoCertData == [present |-> FALSE, validUntil |-> ValidUntil("undefined", 0)]

\* The difference of two dates, NaN when one of them is invalid
Difference(n) == [nan |-> FALSE, n |-> n]

InvalidDifference == [nan |-> TRUE, n |-> 0]

\* x < k; every comparison with NaN is false
lessThan(x, k) == ~x.nan /\ x.n < k

\* The days are rounded up.
daysUntilExpiry_RoundedUp(validUntil, time) ==
    IF validUntil.kind = "date"
    THEN [nan |-> FALSE, n |-> -((time - validUntil.time) \div MinutesPerDay)]
    ELSE [nan |-> TRUE, n |-> 0]

\* Math.floor((new Date(validUntil) - now) / (1000 * 60 * 60 * 24)); the
\* Date of a text that is no date is invalid and its difference is NaN
daysUntilExpiry(validUntil, time) ==
    IF validUntil.kind = "date"
    THEN Difference((validUntil.time - time) \div MinutesPerDay)
    ELSE InvalidDifference

checkCertExpiration(sslData, time) ==
    IF ~sslData.present \/ sslData.validUntil.kind \in {"undefined", "N/A"}
    THEN Finding("certificate expiry", "error",
                 "Cannot determine certificate expiration date", "unknown")
    ELSE IF lessThan(daysUntilExpiry(sslData.validUntil, time), 0)
    THEN Finding("certificate expiry", "danger", "SSL certificate has expired!", "critical")
    ELSE IF lessThan(daysUntilExpiry(sslData.validUntil, time), 30)
    THEN Finding("certificate expiry", "warning", "SSL certificate expires in", "high")
    ELSE Finding("certificate expiry", "success", "SSL certificate is valid for", "none")

\* What a call came to: the value returned, or an exception
Returned(results) == [threw |-> FALSE, results |-> results]

Threw == [threw |-> TRUE, results |-> <<>>]

dnsFindings(dnsData, domain) ==
    IF dnsData.present
    THEN << checkSPF(dnsData), checkDMARC(dnsData, domain), checkDNSSEC(dnsData),
            checkCAA(dnsData), checkMXRecords(dnsData), checkWildcardRecords(dnsData) >>
    ELSE << Finding("DNS data", "error", "No DNS data available for security checks",
                    "unknown") >>

certFindings(sslData, time) ==
    IF sslData.present THEN << checkCertExpiration(sslData, time) >> ELSE << >>

\* No domain is reported.
suspiciousFindings_Silent(domain, securityUtils) == << >>

suspiciousFindings(domain, securityUtils) ==
    IF securityUtils /\ isSuspiciousDomain(domain)
    THEN << Finding("suspicious domain", "danger",
                    "This domain matches patterns commonly used in phishing attacks",
                    "critical") >>
    ELSE << >>

runSecurityChecks(dnsData, sslData, domain, url, securityUtils, time) ==
    IF httpsThrows(url)
    THEN Threw
    ELSE Returned(dnsFindings(dnsData, domain) \o << checkHTTPS(url) >>
                  \o certFindings(sslData, time) \o suspiciousFindings(domain, securityUtils))

\* The inputs of the runs
PlainName == <<"a", ".", "c", "o">>
WildcardName == <<"*", ".", "a", ".", "c", "o">>
SpfData == <<"v", "=", "s", "p", "f", "1", " ", "-", "a", "l", "l">>
SpfUpperData == <<"V", "=", "S", "P", "F", "1">>
DmarcData == <<"v", "=", "D", "M", "A", "R", "C", "1">>
OtherData == <<"x">>

TxtResponses ==
    { NoResponse,
      DnsResponse(FALSE, <<>>, FALSE),
      DnsResponse(TRUE, <<>>, FALSE),
      DnsResponse(TRUE, <<Answer(PlainName, OtherData)>>, FALSE),
      DnsResponse(TRUE, <<Answer(PlainName, SpfUpperData)>>, FALSE),
      DnsResponse(TRUE, <<Answer(PlainName, SpfData), Answer(PlainName, DmarcData)>>, FALSE) }

CaaResponses == { NoResponse, DnsResponse(TRUE, <<Answer(PlainName, OtherData)>>, FALSE) }

MxResponses == { DnsResponse(TRUE, <<>>, FALSE),
                 DnsResponse(TRUE, <<Answer(PlainName, OtherData)>>, FALSE) }

AResponses == { DnsResponse(TRUE, <<Answer(PlainName, OtherData)>>, FALSE),
                DnsResponse(TRUE, <<Answer(WildcardName, OtherData)>>, TRUE) }

\* No DNS data, every TXT response next to answers of the other types, and
\* every combination of the other types next to TXT answers
DnsDatas ==
    {NoDnsData}
    \cup { DnsData(txt, DnsResponse(TRUE, <<Answer(PlainName, OtherData)>>, FALSE),
                   DnsResponse(TRUE, <<Answer(PlainName, OtherData)>>, FALSE),
                   DnsResponse(TRUE, <<Answer(PlainName, OtherData)>>, FALSE)) :
              txt \in TxtResponses }
    \cup { DnsData(DnsResponse(TRUE, <<Answer(PlainName, SpfData)>>, FALSE), caa, mx, a) :
              caa \in CaaResponses, mx \in MxResponses, a \in AResponses }

ExpiryInstants == {0, 1, ThirtyDaysMinutes, ThirtyDaysMinutes + 1, ThirtyDaysMinutes + 2}

CertDatas ==
    {NoCertData, CertData(ValidUntil("undefined", 0)), CertData(ValidUntil("N/A", 0)),
     CertData(ValidUntil("text", 0))}
    \cup { CertData(ValidUntil("date", t)) : t \in ExpiryInstants }

\* What the resolver has for the name _dmarc.<domain>
DmarcName == <<"_", "d", "m", "a", "r", "c", ".">> \o PlainName

DmarcTxtResponses ==
    { DnsResponse(FALSE, <<>>, FALSE),
      DnsResponse(TRUE, <<Answer(DmarcName, DmarcData)>>, FALSE) }

EvalUrls ==
    { UndefinedUrl,
      EvalUrl(Https \o PlainName),
      EvalUrl(Http \o PlainName),
      EvalUrl(<<"H", "T", "T", "P", "S", ":", "/", "/">> \o PlainName) }

PaypalSecureLogin ==
    <<"p", "a", "y", "p", "a", "l", "-", "s", "e", "c", "u", "r", "e", "-", "l", "o", "g",
      "i", "n", ".", "x", "y", "z">>

DotCom == <<".", "c", "o", "m">>

\* paypal.com, www.google.com, apple.com, microsoft.com
BrandDomains ==
    { Paypal \o DotCom, <<"w", "w", "w", ".">> \o Google \o DotCom, Apple \o DotCom,
      Microsoft \o DotCom }

EvalDomains ==
    { PlainName, <<"a", ".", "t", "k">>, <<"1", ".", "2", ".", "3", ".", "4">>,
      PaypalSecureLogin } \cup BrandDomains

EvalIdle ==
    /\ eDnsData = NoDnsData
    /\ eSslData = NoCertData
    /\ eDomain = <<>>
    /\ eUrl = UndefinedUrl
    /\ eSecurityUtils = FALSE
    /\ eCall = "none"
    /\ eOutcome = Returned(<<>>)
    /\ eDmarcTxt = NoResponse

EvalInit ==
    /\ eDnsData \in DnsDatas
    /\ eSslData \in CertDatas
    /\ eDomain \in EvalDomains
    /\ eUrl \in EvalUrls
    /\ eSecurityUtils \in BOOLEAN
    /\ eCall = "none"
    /\ eOutcome = Returned(<<>>)
    /\ eDmarcTxt \in DmarcTxtResponses

\* window.SecurityAlerts.runSecurityChecks(dnsData, sslData, domain, url)
RunSecurityChecks ==
    /\ eCall' = "runSecurityChecks"
    /\ eOutcome' = runSecurityChecks(eDnsData, eSslData, eDomain, eUrl, eSecurityUtils, now)
    /\ UNCHANGED <<eDnsData, eSslData, eDomain, eUrl, eSecurityUtils, eDmarcTxt>>
    /\ UNCHANGED notEvalVars

\* sslSecurityChecks.checkHTTPS(url)
CheckHTTPS ==
    /\ eCall' = "checkHTTPS"
    /\ eOutcome' = IF httpsThrows(eUrl) THEN Threw ELSE Returned(<< checkHTTPS(eUrl) >>)
    /\ UNCHANGED <<eDnsData, eSslData, eDomain, eUrl, eSecurityUtils, eDmarcTxt>>
    /\ UNCHANGED notEvalVars

\* sslSecurityChecks.checkCertExpiration(certData)
CheckCertExpiration ==
    /\ eCall' = "checkCertExpiration"
    /\ eOutcome' = Returned(<< checkCertExpiration(eSslData, now) >>)
    /\ UNCHANGED <<eDnsData, eSslData, eDomain, eUrl, eSecurityUtils, eDmarcTxt>>
    /\ UNCHANGED notEvalVars

\* Time passes between the calls.
EvalTick ==
    /\ now < MaxNow
    /\ now' = now + 1
    /\ eCall' = "none"
    /\ eOutcome' = Returned(<<>>)
    /\ UNCHANGED <<eDnsData, eSslData, eDomain, eUrl, eSecurityUtils, eDmarcTxt>>
    /\ UNCHANGED <<aggVars, clientCallVars, sessionCache, popupVars, cMode, sessionVars, bgVars,
                   secVars>>

(***************************************************************************)
(* The popup's runSecurityCheck (part_000), next to the callbacks of       *)
(* fetchDnsRecords and loadSslCertificate that fill SessionData            *)
(***************************************************************************)
\* What storeSecurityResults has stored: the record types and whether the
\* certificate the findings were computed from
Stored(types, ssl) == [stored |-> TRUE, types |-> types, ssl |-> ssl]

NothingStored == [stored |-> FALSE, types |-> {}, ssl |-> FALSE]

\* Object.keys(dnsData).length === 0 || Object.keys(sslData).length === 0
mustWait(dnsTypes, ssl) == dnsTypes = {} \/ ~ssl

\* The step after the wait, and after the loop over the record types
afterDns(dnsTypes, ssl) ==
    IF dnsTypes = {} THEN "loadingDns" ELSE IF ~ssl THEN "loadingSsl" ELSE "evaluate"

SecIdle ==
    /\ sPc = "closed"
    /\ sSession = {}
    /\ sDnsData = {}
    /\ sSslData = FALSE
    /\ sNext = 0
    /\ sStored = NothingStored

SecInit ==
    /\ sPc = "opened"
    /\ sSession = {}
    /\ sDnsData = {}
    /\ sSslData = FALSE
    /\ sNext = 0
    /\ sStored = NothingStored

\* runSecurityCheck(domain, url) up to its first await: the cached findings
\* are shown if there are any, else dnsData and sslData are filled from
\* SessionData.  The callback of chrome.tabs.query calls it when SessionData
\* is still empty, and the handler of #btn-run-security-check calls it again
\* at any time, also while the first run still waits and SessionData holds
\* what the callbacks have stored by then.
RunSecurityCheck ==
    /\ sPc = "opened"
    /\ IF sStored.stored
       THEN sPc' = "done" /\ UNCHANGED <<sDnsData, sSslData>>
       ELSE /\ sDnsData' = sSession \cap PopupTypeSet
            /\ sSslData' = ("SSL" \in sSession)
            /\ sPc' = IF mustWait(sDnsData', sSslData') THEN "waiting" ELSE "evaluate"
    /\ UNCHANGED <<sSession, sNext, sStored>>
    /\ UNCHANGED notSecVars

\* The callback of fetchDnsRecords for a record type, or of loadSslCertificate,
\* on a response that succeeded: the records go into SessionData
OnLoaded(t) ==
    /\ t \notin sSession
    /\ sSession' = sSession \cup {t}
    /\ UNCHANGED <<sPc, sDnsData, sSslData, sNext, sStored>>
    /\ UNCHANGED notSecVars

\* await new Promise(resolve => setTimeout(resolve, 2000))
SecurityWaitTimer ==
    /\ sPc = "waiting"
    /\ sPc' = afterDns(sDnsData, sSslData)
    /\ sNext' = 1
    /\ UNCHANGED <<sSession, sDnsData, sSslData, sStored>>
    /\ UNCHANGED notSecVars

\* The callback of the getDnsRecords message of the loop over recordTypes
OnSecurityDnsResponse(success) ==
    /\ sPc = "loadingDns"
    /\ sDnsData' = IF success THEN sDnsData \cup {popupRecordTypes[sNext]} ELSE sDnsData
    /\ sNext' = sNext + 1
    /\ sPc' = IF sNext < Len(popupRecordTypes) THEN "loadingDns"
              ELSE IF ~sSslData THEN "loadingSsl" ELSE "evaluate"
    /\ UNCHANGED <<sSession, sSslData, sStored>>
    /\ UNCHANGED notSecVars

\* The callback of the getSslCertificate message
OnSecuritySslResponse(success) ==
    /\ sPc = "loadingSsl"
    /\ sSslData' = success
    /\ sPc' = "evaluate"
    /\ UNCHANGED <<sSession, sDnsData, sNext, sStored>>
    /\ UNCHANGED notSecVars

\* window.SecurityAlerts.runSecurityChecks(dnsData, sslData, domain, url), then
\* SessionData.storeSecurityResults(domain, results) and displaySecurityAlerts
StoreSecurityResults ==
    /\ sPc = "evaluate"
    /\ sStored' = Stored(sDnsData, sSslData)
    /\ sPc' = "done"
    /\ UNCHANGED <<sSession, sDnsData, sSslData, sNext>>
    /\ UNCHANGED notSecVars

\* The certificate of a getSslCertificate response as sslData: validUntil is
\* the text of toISOString(), which new Date reads back to the same instant,
\* or the text 'N/A'
sslDataOf(certificate) ==
    IF certificate.validUntil.known
    THEN CertData(ValidUntil("date", certificate.validUntil.time))
    ELSE CertData(ValidUntil("N/A", 0))

\* runSecurityCheck gets the certificate of the response last sent for
\* getSslCertificate, and runSecurityChecks checks its expiry
OnCertificateForSecurityCheck ==
    /\ cMode = "getSslCertificate"
    /\ bgReply.action = "getSslCertificate"
    /\ bgReply.success
    /\ eSslData' = sslDataOf(bgReply.payload)
    /\ eCall' = "checkCertExpiration"
    /\ eOutcome' = Returned(<< checkCertExpiration(eSslData', now) >>)
    /\ UNCHANGED <<eDnsData, eDomain, eUrl, eSecurityUtils, eDmarcTxt>>
    /\ UNCHANGED notEvalVars

(***************************************************************************)
(* Specifications                                                          *)
(***************************************************************************)
\* One run of loadDnsRecords.
LaterIdle ==
    PopupIdle /\ cMode = "none" /\ SessionIdle /\ BackgroundIdle /\ EvalIdle /\ SecIdle

Init == AggInit /\ ClientIdle /\ LaterIdle

Next ==
    \/ LoadDnsRecords
    \/ \E c \in Calls : Settle(c)
    \/ Emit
    \/ FallbackTimer

Spec == Init /\ [][Next]_vars

\* A run of calls of one provider client.
InitClient ==
    /\ net = [c \in Calls |-> NetNoAnswer]
    /\ AggIdle
    /\ ClientInit
    /\ LaterIdle

NextClient ==
    \/ \E n \in ClientNetOutcomes : FetchRecords(n)
    \/ \E n \in ClientNetOutcomes : FetchFromResolver(n)
    \/ \E n \in ClientNetOutcomes : SendGetDnsRecords(n)
    \/ OnGetDnsRecords
    \/ FetchDnsRecordsDone
    \/ MessageFails
    \/ FetchRecordsCallback
    \/ Tick

SpecClient == InitClient /\ [][NextClient]_vars

\* The popup is opened on one tab.
InitPopup ==
    /\ net = [c \in Calls |-> NetNoAnswer]
    /\ AggIdle
    /\ ClientIdle
    /\ PopupInit
    /\ cMode = "none"
    /\ SessionIdle
    /\ BackgroundIdle
    /\ EvalIdle
    /\ SecIdle

NextPopup ==
    \/ TabsQueryCallback
    \/ OnPopupMessage
    \/ PopupLoaderTimer

SpecPopup == InitPopup /\ [][NextPopup]_vars

\* A run of calls of SessionData, or a run of requests of one kind to the
\* listener of the background script.
InitCache ==
    /\ net = [c \in Calls |-> NetNoAnswer]
    /\ AggIdle
    /\ ClientIdle
    /\ PopupIdle
    /\ cMode \in {"SessionData"} \cup BackgroundModes
    /\ SessionInit
    /\ BackgroundIdle
    /\ EvalIdle
    /\ SecIdle

NextCache ==
    \/ \E x \in SdObjectValues : NewObject(x)
    \/ \E r \in 1..MaxObjects, x \in SdObjectValues : MutateObject(r, x)
    \/ \E key \in SdKeys, value \in SdValues, expiryMs \in 1..MaxTtl :
           SessionSet(key, value, expiryMs)
    \/ \E key \in SdKeys : SessionGet(key)
    \/ \E key \in SdKeys : SessionRemove(key)
    \/ SessionClear
    \/ \E t \in timers : ExpiryTimer(t)
    \/ \E n \in BgNetOutcomes : OnMessageGetDnsRecords("A", n)
    \/ \E f \in bgInFlight : OnDnsRecordsFetched(f)
    \/ \E https \in BOOLEAN : OnMessageGetSslCertificate(Url(https))
    \/ \E nA \in BgNetOutcomes, nCname \in BgNetOutcomes, guess \in CloudGuesses :
           OnMessageGetCloudProvider(nA, nCname, guess)
    \/ \E f \in bgInFlight : OnCloudProviderDetected(f)
    \/ OnMessageClearSessionData
    \/ OnInstalled
    \/ OnCertificateForSecurityCheck
    \/ CacheTick

SpecCache == InitCache /\ [][NextCache]_vars

\* Calls of the security evaluator on one set of arguments.
InitEval ==
    /\ net = [c \in Calls |-> NetNoAnswer]
    /\ AggIdle
    /\ ClientIdle
    /\ PopupIdle
    /\ cMode = "none"
    /\ SessionIdle
    /\ BackgroundIdle
    /\ EvalInit
    /\ SecIdle

NextEval ==
    \/ RunSecurityChecks
    \/ CheckHTTPS
    \/ CheckCertExpiration
    \/ EvalTick

SpecEval == InitEval /\ [][NextEval]_vars

\* The popup is opened and runs its security check.
InitSecurity ==
    /\ net = [c \in Calls |-> NetNoAnswer]
    /\ AggIdle
    /\ ClientIdle
    /\ PopupIdle
    /\ cMode = "none"
    /\ SessionIdle
    /\ BackgroundIdle
    /\ EvalIdle
    /\ SecInit

NextSecurity ==
    \/ RunSecurityCheck
    \/ \E t \in PopupTypeSet \cup {"SSL"} : OnLoaded(t)
    \/ SecurityWaitTimer
    \/ \E success \in BOOLEAN : OnSecurityDnsResponse(success)
    \/ \E success \in BOOLEAN : OnSecuritySslResponse(success)
    \/ StoreSecurityResults

SpecSecurity == InitSecurity /\ [][NextSecurity]_vars

(***************************************************************************)
(* Properties of the aggregation                                           *)
(***************************************************************************)
\* Canonical data as the specification defines it: one trailing "." removed.
StripOneDot(d) == IF Len(d) > 0 /\ d[Len(d)] = "." THEN SubSeq(d, 1, Len(d) - 1) ELSE d

\* The positions of the rendered records of type t whose data is d.
OutputAt(t, d) == {k \in 1..Len(output[t]) : output[t][k].data = d}

NoDuplicates(seq) == \A i, j \in 1..Len(seq) : seq[i] = seq[j] => i = j

\* What the request of provider p for type t resolved to, tagged with the
\* provider's name; empty when it failed.
Contribution(p, t) ==
    LET result == fetchFunction(dnsProviders[p], net[<<p, t>>], t)
    IN IF result.state = "resolved"
       THEN recordsWithProvider(result.value, dnsProviders[p].name)
       ELSE <<>>

RECURSIVE ProviderOrderConcat(_, _)
ProviderOrderConcat(t, p) ==
    IF p = 0 THEN <<>> ELSE ProviderOrderConcat(t, p - 1) \o Contribution(p, t)

\* The merged input with the providers' answers in provider-list order.
ProviderOrderRecords == [t \in TypeSet |-> ProviderOrderConcat(t, Len(dnsProviders))]

Thm_C2_UniquePerCanonicalData ==
    pc = "done" =>
        \A t \in TypeSet :
            /\ \A i \in 1..Len(allRecords[t]) :
                   Cardinality(OutputAt(t, StripOneDot(allRecords[t][i].data))) = 1
            /\ \A k \in 1..Len(output[t]) :
                   \E i \in 1..Len(allRecords[t]) :
                       output[t][k].data = StripOneDot(allRecords[t][i].data)
            /\ \A k, l \in 1..Len(output[t]) :
                   output[t][k].data = output[t][l].data => k = l

Wit_C2_UniquePerCanonicalData ==
    /\ pc = "done"
    /\ \E t \in TypeSet :
           /\ \E i \in 1..Len(allRecords[t]) : allRecords[t][i].data = DataADot
           /\ \E i \in 1..Len(allRecords[t]) : allRecords[t][i].data = DataA
           /\ Cardinality(OutputAt(t, DataA)) = 1
           /\ OutputAt(t, DataADot) = {}

\* C3: the sources of every rendered record are non-empty and name no
\* provider twice.
Thm_C3_SourcesNonEmptyDistinct ==
    pc = "done" =>
        \A t \in TypeSet : \A k \in 1..Len(output[t]) :
            /\ Len(output[t][k].sources) > 0
            /\ NoDuplicates(output[t][k].sources)

\* One provider returns the same canonical data twice for a type.
Wit_C3_SourcesNonEmptyDistinct ==
    /\ pc = "done"
    /\ \E t \in TypeSet : \E i, j \in 1..Len(allRecords[t]) :
           /\ i # j
           /\ allRecords[t][i].provider = allRecords[t][j].provider
           /\ StripOneDot(allRecords[t][i].data) = StripOneDot(allRecords[t][j].data)

\* Everything of a map entry but its sources.
Payload(e) == [key |-> e.key, name |-> e.value.name, type |-> e.value.type,
               data |-> e.value.data, ttl |-> e.value.ttl, provider |-> e.value.provider]

\* The position of the first raw answer of type t with canonical data d.
FirstOccurrence(t, d) ==
    CHOOSE i \in 1..Len(allRecords[t]) :
        /\ StripOneDot(allRecords[t][i].data) = d
        /\ \A j \in 1..(i - 1) : StripOneDot(allRecords[t][j].data) # d

\* C4: first writer wins. Merging one more raw answer leaves every record
\* already in the map unchanged but for its sources, so a rendered record has
\* the ttl of the first merged answer with its canonical data.
Thm_C4_FirstWriterWins ==
    pc = "done" =>
        \A t \in TypeSet :
            /\ \A n \in 1..Len(allRecords[t]) :
                   LET before == uniqueRecords(t, SubSeq(allRecords[t], 1, n - 1))
                       after == uniqueRecords(t, SubSeq(allRecords[t], 1, n))
                   IN /\ Len(after) >= Len(before)
                      /\ \A i \in 1..Len(before) : Payload(after[i]) = Payload(before[i])
            /\ \A k \in 1..Len(output[t]) :
                   LET first == allRecords[t][FirstOccurrence(t, output[t][k].data)]
                   IN /\ output[t][k].ttl = first.ttl
                      /\ output[t][k].data = StripOneDot(first.data)

\* A later answer has the key of an earlier one and another ttl.
Wit_C4_FirstWriterWins ==
    /\ pc = "done"
    /\ \E t \in TypeSet : \E i, j \in 1..Len(allRecords[t]) :
           /\ i < j
           /\ StripOneDot(allRecords[t][i].data) = StripOneDot(allRecords[t][j].data)
           /\ allRecords[t][i].ttl # allRecords[t][j].ttl
           /\ allRecords[t][i].provider # allRecords[t][j].provider

FromProvider(t, p) ==
    LET IsFromP(r) == r.provider = dnsProviders[p].name
    IN SelectSeq(allRecords[t], IsFromP)

RECURSIVE SumOfLengths(_, _)
SumOfLengths(t, p) ==
    IF p = 0 THEN 0 ELSE SumOfLengths(t, p - 1) + Len(Contribution(p, t))

\* C6: whatever requests fail and in whatever order the requests complete,
\* the run ends, and the merged input of a type is the answers of the requests
\* that succeeded for it, each once; a type whose requests all failed renders
\* nothing.
Thm_C6_MergedInputExact ==
    /\ (pc = "waiting" /\ settled = Calls) => allSettled(settled)
    /\ pc = "done" =>
           \A t \in TypeSet :
               /\ \A p \in ProviderIdx : FromProvider(t, p) = Contribution(p, t)
               /\ Len(allRecords[t]) = SumOfLengths(t, Len(dnsProviders))
               /\ (\A p \in ProviderIdx : net[<<p, t>>].kind # "ok") => output[t] = <<>>

\* A request was rejected while the other one of its type delivered records,
\* and every request of another type failed.
Wit_C6_MergedInputExact ==
    /\ pc = "done"
    /\ \E t \in TypeSet :
           /\ fetchFunction(dnsProviders[2], net[<<2, t>>], t).state = "rejected"
           /\ Len(Contribution(1, t)) > 0
           /\ Len(allRecords[t]) > 0
    /\ \E t \in TypeSet :
           /\ \A p \in ProviderIdx : net[<<p, t>>].kind # "ok"
           /\ output[t] = <<>>

\* C7: displayAggregatedRecords runs once per run, after every request has
\* settled, and nothing is rendered before.
Thm_C7_EmitOnceAfterAllSettled ==
    /\ emitCount <= 1
    /\ emitCount = 1 <=> pc = "done"
    /\ emitCount = 1 => settled = Calls
    /\ emitCount = 0 => (output = <<>> /\ nsLookups = {})

Wit_C7_EmitOnceAfterAllSettled ==
    /\ emitCount = 1
    /\ settled = Calls
    /\ \E c \in Calls : fetchFunction(dnsProviders[c[1]], net[c], c[2]).state = "rejected"
    /\ \E t \in TypeSet : Len(output[t]) > 0

\* C8: when a request never settles, the records of the other requests have
\* been rendered once the fallback timeout has passed.
CE_C8_FallbackEmitsPartial ==
    (fallbackFired /\ HungCalls(net) # {}) => emitCount >= 1

(***************************************************************************)
(* Properties of the provider clients                                      *)
(***************************************************************************)
\* The call ended in a transport failure: messaging failed, or the request
\* went out and met a network error, a non-success status or a malformed body.
TransportFailed(e) == e.lastError \/ (e.sent /\ e.net.kind # "ok")

\* The request went out and the resolver's body has no Answer member.
NoAnswerSection(e) == e.sent /\ e.net = NetNoAnswer

\* C9: the promise of DnsService.fetchRecords is never rejected; after a
\* network error, a non-success status, a malformed body or a failure reply of
\* the background script it resolves to {success: false, error: <text>,
\* records: []}.
CE_C9_FetchRecordsNeverRejects ==
    clFn \in {"fetchRecords", "fetchRecordsViaBackground"} =>
        \A i \in 1..Len(clLog) :
            ~clLog[i].lastError =>
                /\ clLog[i].result.state = "resolved"
                /\ TransportFailed(clLog[i]) =>
                       /\ clLog[i].result.value.success = FALSE
                       /\ clLog[i].result.value.error # NoError
                       /\ clLog[i].result.value.records = <<>>

\* The promise resolved to a success with an empty record list.
EmptySuccess(r) ==
    /\ r.state = "resolved"
    /\ IF clFn = "fetchRecords"
       THEN r.value.success /\ r.value.records = <<>>
       ELSE r.value = <<>>

\* C10: a response without an Answer section gives a success with an empty
\* record list, and that value differs from the one a transport failure gives.
CE_C10_NoAnswerDistinctFromFailure ==
    clFn \in {"fetchRecords", "fetchFromGoogleDNS"} =>
        \A i \in 1..Len(clLog) :
            NoAnswerSection(clLog[i]) =>
                /\ EmptySuccess(clLog[i].result)
                /\ \A j \in 1..Len(clLog) :
                       TransportFailed(clLog[j]) => clLog[j].result # clLog[i].result

(***************************************************************************)
(* Properties of the popup                                                 *)
(***************************************************************************)

\* C11: for a hostname that sanitizeDomain turns into the empty string, the
\* popup sends no getDnsRecords message, the background script sends no
\* request to the resolver, and the domain shown is empty.
CE_C11_InvalidDomainNoLookup ==
    (pPc \in {"loading", "shown"} /\ pSecurityUtils /\ sanitizeDomain(pHost) = <<>>) =>
        /\ \A i \in 1..Len(pSent) : pSent[i].action # "getDnsRecords"
        /\ pRequests = <<>>
        /\ pShown = <<>>

(***************************************************************************)
(* Properties of the caches                                                *)
(***************************************************************************)
Null == snapshot(<<>>, JsNull)

\* The age below which the listener answers a request from sessionCache
freshMinutes(action) ==
    CASE action = "getDnsRecords" -> DnsFreshMinutes
      [] action = "getSslCertificate" -> SslFreshMinutes
      [] action = "getCloudProvider" -> CloudFreshMinutes
      [] OTHER -> 0

\* C12: SessionData.get never returns a value whose expiry time is earlier
\* than the time of the call: it returns null when the key is absent or its
\* item has expired; and the listener of the background script never answers
\* from an entry that is as old as the limit of its handler, or older.
Thm_C12_NoExpiredValue ==
    /\ cMode = "SessionData" =>
           /\ sdResult.snap # Null => (sdResult.wasPresent /\ ~sdResult.stale)
           /\ (~sdResult.wasPresent \/ sdResult.stale) => sdResult.snap = Null
    /\ cMode \in BackgroundModes =>
           (bgReply.fromCache => bgReply.age < freshMinutes(bgReply.action))

\* A get has found an item whose expiry time had passed, and returned null.
Wit_C12_NoExpiredValue ==
    /\ cMode = "SessionData"
    /\ sdLastOp.op = "get"
    /\ sdResult.wasPresent
    /\ sdResult.stale
    /\ sdResult.snap = Null

\* C13: after a set has overwritten an earlier set of the key, and no remove
\* or clear followed, the store holds the second value with the expiry of
\* the second set at every time before that expiry.
CE_C13_OverwriteResetsExpiry ==
    cMode = "SessionData" =>
        \A k \in SdKeys :
            (sdLive[k].live /\ sdLive[k].overwrote /\ now < sdLive[k].expiry) =>
                /\ mapHas(memoryStore, k)
                /\ memoryStore[k].expiryTime = sdLive[k].expiry
                /\ snapshot(heap, memoryStore[k].value) = sdLive[k].stored

\* C14: a get that directly follows a set of the same key with a positive
\* expiry returns a value deep-equal to the one given to set, and a get after
\* the expiry of the last set of the key has passed returns null.
CE_C14_RoundTrip ==
    (cMode = "SessionData" /\ sdLastOp = SdOp("get", sdResult.key, FALSE)) =>
        /\ sdResult.afterSet => sdResult.snap = sdLive[sdResult.key].given
        /\ sdResult.elapsed => sdResult.snap = Null

\* C15: the store holds, for every key, what it held when the key was set,
\* in an object the caller has no reference to: no assignment of the caller
\* to the object it gave to set or to an object it got from get changes it.
Thm_C15_IndependentCopies ==
    cMode = "SessionData" =>
        \A k \in DOMAIN memoryStore :
            /\ snapshot(heap, memoryStore[k].value) = sdLive[k].stored
            /\ isObject(memoryStore[k].value) => memoryStore[k].value.num \notin callerRefs

\* The caller has given an object to set, assigned to its property
\* afterwards, and a get has returned the object as it was given.
Wit_C15_IndependentCopies ==
    /\ cMode = "SessionData"
    /\ sdLastOp.op = "get"
    /\ sdResult.snap.kind = "object"
    /\ sdResult.snap = sdLive[sdResult.key].given
    /\ Cardinality(callerRefs) = 2
    /\ \E r \in callerRefs : heap[r] # sdResult.snap.obj

\* C16: a key that was stored when clear() ran, or when the background
\* script reset its session data, is absent until it is set again.
Thm_C16_ClearDropsEveryKey ==
    /\ cMode = "SessionData" => \A k \in sdCleared : ~mapHas(memoryStore, k)
    /\ cMode \in BackgroundModes => \A k \in bgCleared : k \notin DOMAIN sessionCache

\* clear() has dropped a key and a get of that key has returned null.
Wit_C16_ClearDropsEveryKey ==
    /\ cMode = "SessionData"
    /\ sdLastOp.op = "get"
    /\ sdResult.key \in sdCleared
    /\ sdResult.snap = Null

\* C17: a request for DNS records or for the TLS summary is answered from
\* the cache, without a request to the resolver, while the entry is less than
\* 5 minutes old, a request for the cloud provider while it is less than 10
\* minutes old; an older entry is fetched again.
CE_C17_CacheWindows ==
    cMode \in BackgroundModes =>
        /\ \A f \in bgInFlight :
               f.age = -1 \/ f.age >= (IF f.action = "getCloudProvider" THEN 10 ELSE 5)
        /\ bgReply.action \in BackgroundModes =>
               IF bgReply.fromCache
               THEN /\ bgReply.calls = 0
                    /\ bgReply.age < (IF bgReply.action = "getCloudProvider" THEN 10 ELSE 5)
               ELSE bgReply.age = -1 \/
                    bgReply.age >= (IF bgReply.action = "getCloudProvider" THEN 10 ELSE 5)


(***************************************************************************)
(* Properties of the security evaluator                                    *)
(***************************************************************************)
\* The checks of the battery, by the name of the function that makes the
\* finding
Battery ==
    {"SPF", "DMARC", "DNSSEC", "CAA", "MX", "wildcard", "HTTPS", "certificate expiry",
     "suspicious domain"}

\* The positions of the findings of one check
findingsOf(results, check) == {i \in 1..Len(results) : results[i].check = check}

cannotVerify(results, check) ==
    \A i \in findingsOf(results, check) : results[i].severity \in {"medium", "unknown"}

\* C18: runSecurityChecks returns for every input, without throwing, exactly
\* one finding of each of the nine checks; a check whose data is absent (no
\* DNS data, no TXT answers, no TLS summary) makes a finding of severity
\* medium or unknown.
CE_C18_OneFindingPerCheck ==
    eCall = "runSecurityChecks" =>
        /\ ~eOutcome.threw
        /\ \A check \in Battery : Cardinality(findingsOf(eOutcome.results, check)) = 1
        /\ ~eDnsData.present =>
               \A check \in {"SPF", "DMARC", "DNSSEC", "CAA", "MX", "wildcard"} :
                   cannotVerify(eOutcome.results, check)
        /\ noAnswers(eDnsData, "TXT") =>
               cannotVerify(eOutcome.results, "SPF") /\ cannotVerify(eOutcome.results, "DMARC")
        /\ ~eSslData.present => cannotVerify(eOutcome.results, "certificate expiry")

\* C19: checkCertExpiration returns error / unknown when validUntil is
\* missing or is no date, critical when validUntil is earlier than now, high
\* when it is earlier than now + 30 days, and success / none otherwise.
CE_C19_CertExpirationSeverity ==
    eCall = "checkCertExpiration" =>
        LET finding == eOutcome.results[1]
            validUntil == eSslData.validUntil
        IN  IF ~eSslData.present \/ validUntil.kind # "date"
            THEN finding.status = "error" /\ finding.severity = "unknown"
            ELSE IF validUntil.time < now
            THEN finding.severity = "critical"
            ELSE IF validUntil.time < now + ThirtyDaysMinutes
            THEN finding.severity = "high"
            ELSE finding.status = "success" /\ finding.severity = "none"

\* C20: the HTTPS finding of a url that does not begin with https:// has
\* severity high, and that of a url that begins with https:// has status
\* success and severity none, both when checkHTTPS is called alone and when
\* runSecurityChecks calls it.
Thm_C20_HttpsSeverity ==
    (eCall \in {"checkHTTPS", "runSecurityChecks"} /\ eUrl.defined) =>
        /\ ~eOutcome.threw
        /\ findingsOf(eOutcome.results, "HTTPS") # {}
        /\ \A i \in findingsOf(eOutcome.results, "HTTPS") :
               IF Len(eUrl.text) >= 8 /\ SubSeq(eUrl.text, 1, 8) = Https
               THEN /\ eOutcome.results[i].status = "success"
                    /\ eOutcome.results[i].severity = "none"
               ELSE eOutcome.results[i].severity = "high"

\* runSecurityChecks has evaluated a url that begins with http:// and its HTTPS
\* finding has severity high.
Wit_C20_HttpsSeverity ==
    /\ eCall = "runSecurityChecks"
    /\ eUrl.defined
    /\ SubSeq(eUrl.text, 1, 7) = Http
    /\ \E i \in findingsOf(eOutcome.results, "HTTPS") : eOutcome.results[i].severity = "high"


\* The text has the tag at some position, capitals counting as small letters
hasTag(text, tag) ==
    \E p \in 1..Len(text) :
        /\ p + Len(tag) - 1 <= Len(text)
        /\ \A k \in 1..Len(tag) : toLowerCase(text[p + k - 1]) = tag[k]

someAnswerHasTag(response, tag) ==
    /\ response.present
    /\ response.hasAnswer
    /\ \E i \in 1..Len(response.Answer) : hasTag(response.Answer[i].data, tag)

\* C21: the DMARC finding of an evaluation with DNS data has severity high
\* exactly when no TXT record published at _dmarc.<domain> contains v=DMARC1,
\* and status success, severity none when one does.
CE_C21_DmarcAtDmarcName ==
    (eCall = "runSecurityChecks" /\ ~eOutcome.threw /\ eDnsData.present) =>
        \A i \in findingsOf(eOutcome.results, "DMARC") :
            IF someAnswerHasTag(eDmarcTxt, <<"v", "=", "d", "m", "a", "r", "c", "1">>)
            THEN /\ eOutcome.results[i].status = "success"
                 /\ eOutcome.results[i].severity = "none"
            ELSE eOutcome.results[i].severity = "high"

\* C22: the SPF finding of an evaluation with DNS data has status success and
\* severity none exactly when a TXT answer of the domain contains v=spf1 in
\* small or capital letters; when there are TXT answers and none contains it,
\* the finding has severity high.
Thm_C22_SpfCaseInsensitive ==
    (eCall = "runSecurityChecks" /\ ~eOutcome.threw /\ eDnsData.present) =>
        LET hasSpf == someAnswerHasTag(eDnsData.types["TXT"], <<"v", "=", "s", "p", "f", "1">>)
        IN /\ findingsOf(eOutcome.results, "SPF") # {}
           /\ \A i \in findingsOf(eOutcome.results, "SPF") :
                  /\ hasSpf <=> /\ eOutcome.results[i].status = "success"
                                /\ eOutcome.results[i].severity = "none"
                  /\ (~hasSpf /\ ~noAnswers(eDnsData, "TXT")) =>
                         eOutcome.results[i].severity = "high"

\* runSecurityChecks has found the SPF record of a TXT answer that spells it
\* V=SPF1.
Wit_C22_SpfCaseInsensitive ==
    /\ eCall = "runSecurityChecks"
    /\ ~eOutcome.threw
    /\ eDnsData.present
    /\ \E i \in 1..Len(eDnsData.types["TXT"].Answer) :
           eDnsData.types["TXT"].Answer[i].data = SpfUpperData
    /\ \E i \in findingsOf(eOutcome.results, "SPF") : eOutcome.results[i].status = "success"

\* C23: when runSecurityChecks returns for a domain that matches one of the
\* patterns of window.SecurityUtils.isSuspiciousDomain, its result holds
\* one finding of the suspicious-domain check, with status danger and
\* severity critical.
Thm_C23_SuspiciousDomainReported ==
    (/\ eCall = "runSecurityChecks"
     /\ ~eOutcome.threw
     /\ eSecurityUtils
     /\ isSuspiciousDomain(eDomain)) =>
        /\ Cardinality(findingsOf(eOutcome.results, "suspicious domain")) = 1
        /\ \A i \in findingsOf(eOutcome.results, "suspicious domain") :
               /\ eOutcome.results[i].status = "danger"
               /\ eOutcome.results[i].severity = "critical"

\* runSecurityChecks has reported paypal-secure-login.xyz.
Wit_C23_SuspiciousDomainReported ==
    /\ eCall = "runSecurityChecks"
    /\ eDomain = PaypalSecureLogin
    /\ \E i \in findingsOf(eOutcome.results, "suspicious domain") :
           eOutcome.results[i].severity = "critical"

\* C24: an evaluation returns what an evaluation of the same dnsData,
\* sslData, domain and url returns at any other time.
CE_C24_EvaluationDeterministic ==
    eCall = "runSecurityChecks" =>
        \A time \in 0..MaxNow :
            runSecurityChecks(eDnsData, eSslData, eDomain, eUrl, eSecurityUtils, time) = eOutcome

\* C26: the result of an evaluation of paypal.com, www.google.com, apple.com
\* or microsoft.com holds no finding of the suspicious-domain check.
CE_C26_BrandDomainsNotFlagged ==
    (eCall = "runSecurityChecks" /\ ~eOutcome.threw /\ eDomain \in BrandDomains) =>
        findingsOf(eOutcome.results, "suspicious domain") = {}


(***************************************************************************)
(* Properties of the popup's security check                                *)
(***************************************************************************)
\* C29: the security results runSecurityCheck stores were computed from DNS
\* data that holds a response for each of A, AAAA, CNAME, MX, TXT and CAA.
CE_C29_FindingsFromAllTypes ==
    sStored.stored => sStored.types = PopupTypeSet


(***************************************************************************)
(* Properties of the background listener                                   *)
(***************************************************************************)
\* The fetch f of the listener comes to its end in this step.
completes(f) == f \in bgInFlight /\ bgInFlight' = bgInFlight \ {f}

\* A request of the fetch to the resolver failed.
networkFailed(f) ==
    \/ fetchDnsRecords(f.nA).threw
    \/ /\ f.action = "getCloudProvider"
       /\ f.nA.hasAnswer
       /\ Len(f.nA.Answer) > 0
       /\ fetchDnsRecords(f.nCname).threw

\* C25: when a getDnsRecords or getCloudProvider request whose network call
\* failed comes to its end, the cache holds what it held before.
CE_C25_FailureNeverCached ==
    [][\A f \in bgInFlight : (completes(f) /\ networkFailed(f)) => sessionCache' = sessionCache]_vars

\* C27: a fetch that was in flight when the cache was reset writes nothing
\* into the cache when it comes to its end.
CE_C27_NoWriteAfterClear ==
    [][\A f \in bgInFlight : (completes(f) /\ f.cleared) => sessionCache' = sessionCache]_vars

\* C28: the certificate the getSslCertificate handler answers with has
\* secure = true exactly when the url of the request starts with https://.
CE_C28_SecureFollowsRequestUrl ==
    [][\A https \in BOOLEAN :
          OnMessageGetSslCertificate(Url(https)) =>
              (bgReply'.payload.secure <=> startsWithHttps(Url(https)))]_vars

\* C30: a certificate synthesized for an https:// url has validUntil 30 days
\* after the instant of its synthesis, and checkCertExpiration applied to it
\* at a later instant, up to 5 minutes later, reports severity high.
Thm_C30_SynthesizedExpiresIn29Days ==
    cMode = "getSslCertificate" =>
        /\ \A key \in DOMAIN sessionCache :
               (key[1] = "ssl" /\ sessionCache[key].data.secure) =>
                   sessionCache[key].data.validUntil =
                       Instant(sessionCache[key].timestamp + ThirtyDaysMinutes)
        /\ (/\ eCall = "checkCertExpiration"
            /\ eSslData.validUntil.kind = "date"
            /\ now > eSslData.validUntil.time - ThirtyDaysMinutes
            /\ now <= eSslData.validUntil.time - ThirtyDaysMinutes + SslFreshMinutes) =>
               eOutcome.results[1].severity = "high"

\* The expiry of a certificate that was served from the cache has been checked
\* some minutes after its synthesis, with severity high.
Wit_C30_SynthesizedExpiresIn29Days ==
    /\ cMode = "getSslCertificate"
    /\ bgReply.action = "getSslCertificate"
    /\ bgReply.fromCache
    /\ bgReply.payload.secure
    /\ eCall = "checkCertExpiration"
    /\ now > eSslData.validUntil.time - ThirtyDaysMinutes
    /\ eOutcome.results[1].severity = "high"

====
